---- MODULE Spec2Model ----
(***************************************************************************)
(* A model of the pandas cleaning pipeline of src/src/data_pipeline:       *)
(* the eleven cleaning steps of pd_pipeline.py as operators on tables, and *)
(* the orchestrator run_cleaning_df as a state machine that threads one    *)
(* table through them.                                                     *)
(*                                                                         *)
(* Conventions.                                                            *)
(*  - Text is a sequence of one-character strings, so that the parsers of  *)
(*    the steps are computed character by character.                       *)
(*  - Numbers are exact: an int is an integer, a float is a reduced        *)
(*    fraction <<n, d>> with d > 0.  Binary rounding error of IEEE floats  *)
(*    is not modelled.                                                     *)
(*  - A cell is <<kind, payload>>: the kind is "null", "int", "float",     *)
(*    "str" or "bool".  None, NaN, NaT and pd.NA are one                   *)
(*    null; the places where pandas compares nulls are modelled where the  *)
(*    comparison is made.                                                  *)
(*  - A table is [dt, rows]: dt maps each column name to its dtype         *)
(*    ("int", "float", "bool", "obj"), rows is the sequence of rows, each  *)
(*    a function from column name to cell.  Column order is not modelled.  *)
(*  - Library behaviour is that of pandas 2.x (full-column .loc assignment *)
(*    is in place and falls back to replacing the column when the dtype    *)
(*    cannot hold the values; to_datetime infers one format from the first *)
(*    non-null value).                                                     *)
(***************************************************************************)
EXTENDS Integers, Sequences, FiniteSets, TLC

\* ---------------------------------------------------------------- bounds
MaxRows == 2

\* ------------------------------------------------------- sequences, sets
Range(s) == {s[i] : i \in DOMAIN s}

SeqSum(s) ==
  LET RECURSIVE go(_)
      go(i) == IF i > Len(s) THEN 0 ELSE s[i] + go(i + 1)
  IN go(1)

\* The elements of s that satisfy Test, in order (a list comprehension).
Filter(s, Test(_)) == SelectSeq(s, Test)

\* The indices of s, ascending, as a sequence.
Indices(s) == [i \in 1..Len(s) |-> i]

Count(s, Test(_)) == Cardinality({i \in DOMAIN s : Test(s[i])})

\* ------------------------------------------------------------ characters
Digits == <<"0", "1", "2", "3", "4", "5", "6", "7", "8", "9">>
Uppers == <<"A", "B", "C", "D", "E", "F", "G", "H", "I", "J", "K", "L", "M",
            "N", "O", "P", "Q", "R", "S", "T", "U", "V", "W", "X", "Y", "Z">>
Lowers == <<"a", "b", "c", "d", "e", "f", "g", "h", "i", "j", "k", "l", "m",
            "n", "o", "p", "q", "r", "s", "t", "u", "v", "w", "x", "y", "z">>
\* The characters of the model in code-point order (Python compares text by
\* code point); "~" stands for a non-ASCII currency sign.
CodeOrder == <<" ", "&", "(", ")", ",", "-", ".", "/">> \o Digits \o <<"<", ">">>
             \o Uppers \o <<"_">> \o Lowers \o <<"~">>

IsDigit(c) == c \in Range(Digits)
IsUpper(c) == c \in Range(Uppers)
IsLower(c) == c \in Range(Lowers)
IsAlpha(c) == IsUpper(c) \/ IsLower(c)
IsSpace(c) == c = " "
IndexIn(c, s) == CHOOSE i \in DOMAIN s : s[i] = c
DigitVal(c) == IndexIn(c, Digits) - 1
DigitChr(n) == Digits[n + 1]
Ord(c) == IndexIn(c, CodeOrder)
LowerChr(c) == IF IsUpper(c) THEN Lowers[IndexIn(c, Uppers)] ELSE c
UpperChr(c) == IF IsLower(c) THEN Uppers[IndexIn(c, Lowers)] ELSE c

\* ------------------------------------------------------------------ text
\* str.lower()
StrLower(s) == [i \in DOMAIN s |-> LowerChr(s[i])]

\* str.strip(): leading and trailing whitespace removed
StrStrip(s) ==
  LET keep == {i \in DOMAIN s : ~IsSpace(s[i])}
  IN IF keep = {} THEN <<>>
     ELSE LET lo == CHOOSE i \in keep : \A j \in keep : i <= j
              hi == CHOOSE i \in keep : \A j \in keep : i >= j
          IN SubSeq(s, lo, hi)

\* str.replace(old, new), leftmost non-overlapping occurrences
StrReplace(s, old, new) ==
  LET RECURSIVE go(_)
      go(i) ==
        IF i > Len(s) THEN <<>>
        ELSE IF i + Len(old) - 1 <= Len(s) /\ SubSeq(s, i, i + Len(old) - 1) = old
             THEN new \o go(i + Len(old))
             ELSE <<s[i]>> \o go(i + 1)
  IN IF old = <<>> THEN s ELSE go(1)

\* old in s
StrContains(s, old) ==
  \E i \in 1..(Len(s) - Len(old) + 1) : SubSeq(s, i, i + Len(old) - 1) = old

\* re.sub(r"\s+", " ", s): every run of whitespace becomes one space
CollapseSpaces(s) ==
  LET RECURSIVE go(_)
      go(i) ==
        IF i > Len(s) THEN <<>>
        ELSE IF IsSpace(s[i])
             THEN IF i > 1 /\ IsSpace(s[i - 1]) THEN go(i + 1)
                  ELSE <<" ">> \o go(i + 1)
             ELSE <<s[i]>> \o go(i + 1)
  IN go(1)

\* s < t for Python text: lexicographic by code point
StrLess(s, t) ==
  LET RECURSIVE go(_)
      go(i) ==
        IF i > Len(t) THEN FALSE
        ELSE IF i > Len(s) THEN TRUE
        ELSE IF s[i] = t[i] THEN go(i + 1)
        ELSE Ord(s[i]) < Ord(t[i])
  IN go(1)

\* The length of the run of digits of s that starts at position i.
DigitRun(s, i) ==
  LET RECURSIVE go(_)
      go(j) == IF j <= Len(s) /\ IsDigit(s[j]) THEN 1 + go(j + 1) ELSE 0
  IN go(i)

\* The length of the run of whitespace of s that starts at position i.
SpaceRun(s, i) ==
  LET RECURSIVE go(_)
      go(j) == IF j <= Len(s) /\ IsSpace(s[j]) THEN 1 + go(j + 1) ELSE 0
  IN go(i)

\* int(s) for a text of digits
DigitsVal(s) ==
  LET RECURSIVE go(_, _)
      go(i, acc) == IF i > Len(s) THEN acc ELSE go(i + 1, acc * 10 + DigitVal(s[i]))
  IN go(1, 0)

\* str(n) for a natural number
NatStr(n) ==
  LET RECURSIVE go(_)
      go(m) == IF m < 10 THEN <<DigitChr(m)>> ELSE go(m \div 10) \o <<DigitChr(m % 10)>>
  IN go(n)

\* str(n) for an integer
IntStr(n) == IF n < 0 THEN <<"-">> \o NatStr(-n) ELSE NatStr(n)

\* --------------------------------------------------------------- numbers
RECURSIVE GCD(_, _)
GCD(a, b) == IF b = 0 THEN a ELSE GCD(b, a % b)

Abs(n) == IF n < 0 THEN -n ELSE n

RECURSIVE Pow10(_)
Pow10(k) == IF k = 0 THEN 1 ELSE 10 * Pow10(k - 1)

\* The fraction n/d (d # 0), reduced, with a positive denominator.
Rat(n, d) ==
  LET g == GCD(Abs(n), Abs(d))
      s == IF d < 0 THEN -1 ELSE 1
  IN <<(s * n) \div g, (s * d) \div g>>

RInt(n) == <<n, 1>>
RAdd(a, b) == Rat(a[1] * b[2] + b[1] * a[2], a[2] * b[2])
RMul(a, b) == Rat(a[1] * b[1], a[2] * b[2])
RDiv(a, b) == Rat(a[1] * b[2], a[2] * b[1])
RLt(a, b) == a[1] * b[2] < b[1] * a[2]
RLe(a, b) == a[1] * b[2] <= b[1] * a[2]
RMin(a, b) == IF RLe(a, b) THEN a ELSE b
RMax(a, b) == IF RLe(a, b) THEN b ELSE a
RIsInt(a) == a[2] = 1

\* round(x, dp), ties to even (numpy and Python round half to even)
RRound(a, dp) ==
  LET p == Pow10(dp)
      m == a[1] * p
      q == m \div a[2]
      r == m % a[2]
      up == \/ 2 * r > a[2]
            \/ 2 * r = a[2] /\ q % 2 = 1
  IN Rat(IF up THEN q + 1 ELSE q, p)

\* The sequence of fractions s, sorted ascending (insertion sort).
RSort(s) ==
  LET RECURSIVE ins(_, _)
      ins(x, t) == IF t = <<>> THEN <<x>>
                   ELSE IF RLe(x, Head(t)) THEN <<x>> \o t
                   ELSE <<Head(t)>> \o ins(x, Tail(t))
      RECURSIVE go(_)
      go(i) == IF i > Len(s) THEN <<>> ELSE ins(s[i], go(i + 1))
  IN go(1)

RSum(s) ==
  LET RECURSIVE go(_)
      go(i) == IF i > Len(s) THEN RInt(0) ELSE RAdd(s[i], go(i + 1))
  IN go(1)

\* ----------------------------------------------------------------- cells
\* A cell is <<kind, payload>>; the kind comes first so that two cells of
\* different kinds are told apart before their payloads are compared.
Null == <<"null", 0>>
IntC(n) == <<"int", n>>
FloatC(r) == <<"float", r>>
StrC(s) == <<"str", s>>
BoolC(b) == <<"bool", b>>
Kind(c) == c[1]
Val(c) == c[2]
IsNull(c) == Kind(c) = "null"
IsStr(c) == Kind(c) = "str"
IsNum(c) == Kind(c) \in {"int", "float"}
IsNumeric(c) == Kind(c) \in {"int", "float", "bool"}

\* The value of a numeric cell as a fraction (Python: True == 1, False == 0).
NumVal(c) ==
  CASE Kind(c) = "int" -> RInt(Val(c))
    [] Kind(c) = "float" -> Val(c)
    [] Kind(c) = "bool" -> RInt(IF Val(c) THEN 1 ELSE 0)

\* A number as a cell: of kind int when asInt and it is whole, else float.
NumCell(r, asInt) == IF asInt /\ RIsInt(r) THEN IntC(r[1]) ELSE FloatC(r)
AsFloat(c) == IF IsNum(c) THEN FloatC(NumVal(c)) ELSE c

\* a == b for two non-null Python objects
PyEq(a, b) ==
  IF IsNumeric(a) /\ IsNumeric(b) THEN NumVal(a) = NumVal(b)
  ELSE IF IsStr(a) /\ IsStr(b) THEN Val(a) = Val(b)
  ELSE FALSE

\* Two cells hold the same value: both null, or equal as Python objects.
SameCell(a, b) == IF IsNull(a) \/ IsNull(b) THEN IsNull(a) /\ IsNull(b) ELSE PyEq(a, b)

\* repr(x) of a float: the integer part, a point and the decimals (at least
\* one, at most six: a fraction that does not terminate is cut there).
FloatStr(r) ==
  LET n == Abs(r[1])
      RECURSIVE frac(_, _)
      frac(rem, left) ==
        IF rem = 0 \/ left = 0 THEN <<>>
        ELSE <<DigitChr((rem * 10) \div r[2])>> \o frac((rem * 10) % r[2], left - 1)
      f == frac(n % r[2], 6)
  IN (IF r[1] < 0 THEN <<"-">> ELSE <<>>) \o NatStr(n \div r[2]) \o <<".">>
     \o (IF f = <<>> THEN <<"0">> ELSE f)

\* str(x) of a non-null cell
PyStr(c) ==
  CASE Kind(c) = "str" -> Val(c)
    [] Kind(c) = "int" -> IntStr(Val(c))
    [] Kind(c) = "float" -> FloatStr(Val(c))
    [] Kind(c) = "bool" -> IF Val(c) THEN <<"T", "r", "u", "e">>
                           ELSE <<"F", "a", "l", "s", "e">>

\* Series.astype("string"), per cell: null stays null, the rest is str(x)
AsString(c) == IF IsNull(c) THEN Null ELSE StrC(PyStr(c))

\* float(t)-style parsing of a plain decimal numeral: an optional sign,
\* digits with at most one point, at least one digit.  <<>> when t is not
\* one, else <<fraction, whole>> where whole says there was no point.
ParseDecimal(t) ==
  LET neg == Len(t) > 0 /\ t[1] = "-"
      signed(m) == IF neg THEN <<-m[1], m[2]>> ELSE m
      digits(b, ip, hasDot, fp) ==
        IF ip + (IF hasDot THEN 1 + fp ELSE 0) = Len(b) /\ ip + fp > 0
        THEN <<signed(Rat(DigitsVal(SubSeq(b, 1, ip)) * Pow10(fp)
                          + DigitsVal(SubSeq(b, ip + 2, ip + 1 + fp)), Pow10(fp))),
               ~hasDot>>
        ELSE <<>>
      point(b, ip, hasDot) == digits(b, ip, hasDot, IF hasDot THEN DigitRun(b, ip + 2) ELSE 0)
      whole(b, ip) == point(b, ip, ip < Len(b) /\ b[ip + 1] = ".")
      body(b) == whole(b, DigitRun(b, 1))
  IN body(IF Len(t) > 0 /\ t[1] \in {"-", "+"} THEN Tail(t) ELSE t)

\* ---------------------------------------------------------------- tables
NoCol == ""
Cols(t) == DOMAIN t.dt
NRows(t) == Len(t.rows)
\* df[c], the cells of column c in row order
Col(t, c) == [i \in 1..Len(t.rows) |-> t.rows[i][c]]
IsNumericDtype(d) == d \in {"int", "float", "bool"}

\* The dtype pandas infers for a column made of the cells vals.
InferDtype(vals) ==
  IF vals = <<>> THEN "obj"
  ELSE IF \A i \in DOMAIN vals : Kind(vals[i]) = "int" THEN "int"
  ELSE IF \A i \in DOMAIN vals : IsNum(vals[i]) \/ IsNull(vals[i]) THEN "float"
  ELSE IF \A i \in DOMAIN vals : Kind(vals[i]) = "bool" THEN "bool"
  ELSE "obj"

\* Whether a column of dtype d can take the cells vals in place.
CanHold(d, vals) ==
  CASE d = "obj" -> TRUE
    [] d = "float" -> \A i \in DOMAIN vals : IsNum(vals[i]) \/ IsNull(vals[i])
    [] d = "int" -> \A i \in DOMAIN vals : IsNum(vals[i]) /\ RIsInt(NumVal(vals[i]))
    [] d = "bool" -> \A i \in DOMAIN vals : Kind(vals[i]) = "bool"

\* A cell as a column of dtype d stores it.
Stored(d, c) ==
  CASE d = "float" -> AsFloat(c)
    [] d = "int" -> IF IsNum(c) THEN IntC(NumVal(c)[1]) ELSE c
    [] OTHER -> c

\* df.loc[:, c] = vals: the values are written into the column in place;
\* when the column's dtype cannot hold them the column is replaced by one of
\* the dtype of the values.
SetColumn(t, c, vals) ==
  LET d == IF NRows(t) = 0 \/ CanHold(t.dt[c], vals) THEN t.dt[c] ELSE InferDtype(vals)
  IN [dt |-> [t.dt EXCEPT ![c] = d],
      rows |-> [i \in 1..Len(t.rows) |-> [t.rows[i] EXCEPT ![c] = Stored(d, vals[i])]]]

\* What a step returns: the table, its report, and whether it raised.
Ok(t, rep) == [t |-> t, rep |-> rep, err |-> FALSE]
Raised(t) == [t |-> t, rep |-> <<>>, err |-> TRUE]

\* A per-field loop: Step(table, field) is applied for each field of the
\* sequence fields in turn, and Cnt(table, field) is the count reported for
\* the field, taken on the table as it is when the field's turn comes.
RECURSIVE FoldCount(_, _, _, _)
FoldCount(Step(_, _), Cnt(_, _), t, fields) ==
  IF fields = <<>> THEN [t |-> t, n |-> <<>>]
  ELSE LET f == Head(fields)
           r == FoldCount(Step, Cnt, Step(t, f), Tail(fields))
       IN [t |-> r.t, n |-> r.n @@ (f :> Cnt(t, f))]

\* The non-null cells of a column, in row order.
NonNull(vals) == SelectSeq(vals, LAMBDA c : ~IsNull(c))
NullCount(vals) == Cardinality({i \in DOMAIN vals : IsNull(vals[i])})

\* Series.mean() / Series.median() over the non-null values; <<>> is NaN.
Mean(vals) ==
  LET of(nn) == IF nn = <<>> THEN <<>>
                ELSE RDiv(RSum([i \in DOMAIN nn |-> NumVal(nn[i])]), RInt(Len(nn)))
  IN of(NonNull(vals))

Median(vals) ==
  LET nums(nn) == [i \in DOMAIN nn |-> NumVal(nn[i])]
      mid(s, n) == IF n = 0 THEN <<>>
                   ELSE IF n % 2 = 1 THEN s[(n + 1) \div 2]
                   ELSE RDiv(RAdd(s[n \div 2], s[n \div 2 + 1]), RInt(2))
      of(s) == mid(s, Len(s))
  IN of(RSort(nums(NonNull(vals))))

\* The first non-null value instead of the most frequent one.
ModeFirst(vals) == IF NonNull(vals) = <<>> THEN Null ELSE NonNull(vals)[1]

\* Series.mode(dropna=True).iloc[0]: the most frequent non-null value; among
\* values equally frequent the smallest, or the first met when they cannot
\* be sorted (text mixed with numbers).  Null when there is no value.
Mode(vals) ==
  LET less(a, b) == IF IsStr(a) THEN StrLess(Val(a), Val(b)) ELSE RLt(NumVal(a), NumVal(b))
      pick(nn, best) ==
        IF (\A i \in best : IsStr(nn[i])) \/ (\A i \in best : IsNumeric(nn[i]))
        THEN CHOOSE i \in best : \A j \in best : j = i \/ less(nn[i], nn[j])
        ELSE CHOOSE i \in best : \A j \in best : i <= j
      most(nn, first) ==
        LET cnt(i) == Cardinality({j \in DOMAIN nn : PyEq(nn[j], nn[i])})
        IN pick(nn, {i \in first : \A j \in first : cnt(j) <= cnt(i)})
      of(nn) ==
        IF nn = <<>> THEN Null
        ELSE nn[most(nn, {i \in DOMAIN nn : \A j \in 1..(i - 1) : ~PyEq(nn[j], nn[i])})]
  IN of(NonNull(vals))

\* -------------------------------------------------------- 1. missing values
\* impute_missing_pd
ImputeMissing(t, cfg) ==
  LET include == IF cfg.missing.include = <<>> THEN Cols(t) ELSE Range(cfg.missing.include)
      cols == {c \in include : c \in Cols(t) /\ c \notin Range(cfg.missing.exclude)}
      num_cols == {c \in cols : IsNumericDtype(t.dt[c])}
      cat_cols == cols \ num_cols
      value(c) == IF cfg.missing.numeric_strategy = "mean" THEN Mean(Col(t, c))
                  ELSE Median(Col(t, c))
      mode(c) == Mode(Col(t, c))
      filled(c, x) ==
        IF ~IsNull(x) THEN x
        ELSE IF c \in num_cols THEN (IF value(c) = <<>> THEN x ELSE FloatC(value(c)))
        ELSE IF c \in cat_cols THEN mode(c)
        ELSE x
      rep == [numeric |-> [c \in num_cols |-> NullCount(Col(t, c))],
              categorical |-> [c \in {c \in cat_cols : ~IsNull(mode(c))}
                                 |-> NullCount(Col(t, c))]]
  IN Ok([dt |-> t.dt,
         rows |-> [i \in 1..Len(t.rows) |-> [c \in Cols(t) |-> filled(c, t.rows[i][c])]]],
        rep)

\* ------------------------------------------------------------------ dates
\* A date is [y, m, d]; NaT is <<>>.  A format is a sequence of tokens: the
\* directives "Y" (%Y), "m" (%m), "d" (%d), "b" (%b), any other token a
\* literal character.
NaT == <<>>
MonthAbbr == << <<"j","a","n">>, <<"f","e","b">>, <<"m","a","r">>, <<"a","p","r">>,
                <<"m","a","y">>, <<"j","u","n">>, <<"j","u","l">>, <<"a","u","g">>,
                <<"s","e","p">>, <<"o","c","t">>, <<"n","o","v">>, <<"d","e","c">> >>
IsLeap(y) == (y % 4 = 0 /\ y % 100 # 0) \/ y % 400 = 0
DaysIn(y, m) ==
  IF m = 2 THEN (IF IsLeap(y) THEN 29 ELSE 28)
  ELSE IF m \in {4, 6, 9, 11} THEN 30 ELSE 31
ValidDate(dt) ==
  /\ dt.y >= 1 /\ dt.m \in 1..12
  /\ dt.d >= 1 /\ dt.d <= DaysIn(dt.y, dt.m)

\* pd.to_datetime(s, format=fmt, errors="coerce") for one text s: the whole
\* text must match the format and denote a date of the calendar.
Strptime(fmt, s) ==
  LET RECURSIVE go(_, _, _)
      go(fi, si, acc) ==
        IF fi > Len(fmt)
        THEN (IF si = Len(s) + 1 /\ ValidDate(acc) THEN acc ELSE NaT)
        ELSE
          LET tok == fmt[fi]
              run == DigitRun(s, si)
          IN CASE tok = "Y" ->
                    IF run >= 4
                    THEN go(fi + 1, si + 4, [acc EXCEPT !.y = DigitsVal(SubSeq(s, si, si + 3))])
                    ELSE NaT
               [] tok \in {"m", "d"} ->
                    LET n == IF run >= 2 THEN 2 ELSE run
                        v == DigitsVal(SubSeq(s, si, si + n - 1))
                    IN IF n = 0 THEN NaT
                       ELSE IF tok = "m" THEN go(fi + 1, si + n, [acc EXCEPT !.m = v])
                       ELSE go(fi + 1, si + n, [acc EXCEPT !.d = v])
               [] tok = "b" ->
                    IF si + 2 <= Len(s)
                       /\ StrLower(SubSeq(s, si, si + 2)) \in Range(MonthAbbr)
                    THEN go(fi + 1, si + 3,
                            [acc EXCEPT !.m = IndexIn(StrLower(SubSeq(s, si, si + 2)), MonthAbbr)])
                    ELSE NaT
               [] OTHER ->
                    IF si <= Len(s) /\ s[si] = tok THEN go(fi + 1, si + 1, acc) ELSE NaT
  IN go(1, 1, [y |-> 0, m |-> 0, d |-> 0])

\* Timestamp.strftime(fmt)
Strftime(fmt, dt) ==
  LET pad2(n) == IF n < 10 THEN <<"0">> \o NatStr(n) ELSE NatStr(n)
      pad4(n) == IF n < 10 THEN <<"0", "0", "0">> \o NatStr(n)
                 ELSE IF n < 100 THEN <<"0", "0">> \o NatStr(n)
                 ELSE IF n < 1000 THEN <<"0">> \o NatStr(n) ELSE NatStr(n)
      cap(w) == <<UpperChr(w[1])>> \o Tail(w)
      RECURSIVE go(_)
      go(fi) ==
        IF fi > Len(fmt) THEN <<>>
        ELSE (CASE fmt[fi] = "Y" -> pad4(dt.y)
                [] fmt[fi] = "m" -> pad2(dt.m)
                [] fmt[fi] = "d" -> pad2(dt.d)
                [] fmt[fi] = "b" -> cap(MonthAbbr[dt.m])
                [] OTHER -> <<fmt[fi]>>) \o go(fi + 1)
  IN go(1)

\* The format pandas guesses from one text (guess_datetime_format with
\* dayfirst=False), for the numeric shapes of the model: year first, or
\* year last with the month first unless the first number cannot be a month.
\* <<>> when no format is guessed.
GuessFormat(s) ==
  LET first(good) == IF good = <<>> THEN <<>> ELSE Head(good)
      shape(r1, sep) ==
        IF sep \notin {"-", "/"} THEN <<>>
        ELSE first(SelectSeq(IF r1 = 4 THEN << <<"Y", sep, "m", sep, "d">> >>
                             ELSE << <<"m", sep, "d", sep, "Y">>, <<"d", sep, "m", sep, "Y">> >>,
                             LAMBDA fmt : Strptime(fmt, s) # NaT))
      run(r1) == shape(r1, IF r1 < Len(s) THEN s[r1 + 1] ELSE " ")
  IN run(DigitRun(s, 1))

\* pd.to_datetime(ser, errors="coerce") on a column of text: one format is
\* guessed from the first non-null text and every text is parsed with it;
\* when none can be guessed each text is parsed on its own.
DefaultParse(ser) ==
  LET with(g, x) == IF g = <<>> THEN NaT ELSE Strptime(g, Val(x))
      one(g, x) == IF IsNull(x) THEN NaT
                   ELSE IF g # <<>> THEN with(g, x)
                   ELSE with(GuessFormat(Val(x)), x)
      all(g) == [i \in DOMAIN ser |-> one(g, ser[i])]
      from(nn) == all(IF nn = {} THEN <<>>
                      ELSE GuessFormat(Val(ser[CHOOSE i \in nn : \A j \in nn : i <= j])))
  IN from({i \in DOMAIN ser : ~IsNull(ser[i])})

\* The loop over input_formats for one cell: each format in turn is tried
\* while the cell is still NaT.
RECURSIVE ParseOne(_, _, _)
ParseOne(x, p, fmts) ==
  IF p # NaT \/ fmts = <<>> \/ IsNull(x) THEN p
  ELSE ParseOne(x, Strptime(Head(fmts), Val(x)), Tail(fmts))

\* The loop over input_formats: each format is tried on what is still NaT.
ParseWithFormats(ser, parsed, fmts) ==
  [i \in DOMAIN ser |-> ParseOne(ser[i], parsed[i], fmts)]

\* The order the docstring of standardize_dates_pd gives: the explicit
\* formats first, the catch-all parse on what they leave.
DatesParsedFormatsFirst(t, f, cfg) ==
  LET by(x, d) == IF ParseOne(x, NaT, cfg.dates.input_formats) # NaT
                  THEN ParseOne(x, NaT, cfg.dates.input_formats) ELSE d
      of(ser, dflt) == [i \in DOMAIN ser |-> by(ser[i], dflt[i])]
      on(ser) == of(ser, DefaultParse(ser))
  IN on([i \in 1..NRows(t) |-> AsString(t.rows[i][f])])

\* ------------------------------------------------------------- 2. dates
DatesParsed(t, f, cfg) ==
  LET of(ser) == ParseWithFormats(ser, DefaultParse(ser), cfg.dates.input_formats)
  IN of([i \in 1..NRows(t) |-> AsString(t.rows[i][f])])

DatesField(t, f, cfg) ==
  LET out(parsed) ==
        [i \in 1..NRows(t) |->
           IF parsed[i] # NaT THEN StrC(Strftime(cfg.dates.target_format, parsed[i]))
           ELSE IF cfg.dates.invalid_to_null THEN Null
           ELSE t.rows[i][f]]
  IN SetColumn(t, f, out(DatesParsed(t, f, cfg)))

DatesCount(t, f, cfg) ==
  LET of(ser, parsed) ==
        Cardinality({i \in DOMAIN ser : parsed[i] # NaT /\ ~IsNull(ser[i])
                                          /\ Len(Val(ser[i])) > 0})
  IN of([i \in 1..NRows(t) |-> AsString(t.rows[i][f])], DatesParsed(t, f, cfg))

\* standardize_dates_pd
StandardizeDates(t, cfg) ==
  LET fields == SelectSeq(cfg.dates.fields, LAMBDA f : f \in Cols(t))
      step(tt, f) == DatesField(tt, f, cfg)
      cnt(tt, f) == DatesCount(tt, f, cfg)
      done(r) == Ok(r.t, [dates_converted |-> r.n])
  IN done(FoldCount(step, cnt, t, fields))

\* The cleaning without the step for parentheses: "(x)" is left as it is.
PriceCleanKeepParens(s) ==
  SelectSeq(SelectSeq(s, LAMBDA c : IsDigit(c) \/ c \in {"-", ".", ",", "(", ")"}),
            LAMBDA c : c # ",")

\* ------------------------------------------------------------- 3. prices
\* _CURRENCY_RE removed, then the commas, then "(x)" turned into "-x"
PriceClean(s) ==
  LET kept == SelectSeq(s, LAMBDA c : IsDigit(c) \/ c \in {"-", ".", ",", "(", ")"})
      s2 == SelectSeq(kept, LAMBDA c : c # ",")
  IN IF Len(s2) >= 2 /\ s2[1] = "(" /\ s2[Len(s2)] = ")"
     THEN <<"-">> \o SubSeq(s2, 2, Len(s2) - 1)
     ELSE s2

\* pd.to_numeric(s2, errors="coerce") for one cell: <<>> is NaN
PriceNum(c) == IF IsNull(c) THEN <<>> ELSE ParseDecimal(PriceClean(PyStr(c)))

PricesField(t, f, cfg) ==
  LET \* the parsed column is of integer dtype when no numeral has a point
      out(nums, whole) ==
        [i \in 1..NRows(t) |->
           IF nums[i] # <<>>
           THEN NumCell(RRound(nums[i][1], cfg.price.decimal_places), whole)
           ELSE IF cfg.price.coerce_invalid_to_null THEN Null
           ELSE t.rows[i][f]]
      of(nums) == out(nums, \A i \in DOMAIN nums : nums[i] = <<>> \/ nums[i][2])
  IN SetColumn(t, f, of([i \in 1..NRows(t) |-> PriceNum(t.rows[i][f])]))

PricesCount(t, f, cfg) ==
  Cardinality({i \in 1..NRows(t) : PriceNum(t.rows[i][f]) # <<>>})

\* standardize_prices_pd
StandardizePrices(t, cfg) ==
  LET fields == SelectSeq(cfg.price.fields, LAMBDA f : f \in Cols(t))
      step(tt, f) == PricesField(tt, f, cfg)
      cnt(tt, f) == PricesCount(tt, f, cfg)
      done(r) == Ok(r.t, [prices_standardized |-> r.n])
  IN done(FoldCount(step, cnt, t, fields))

\* ------------------------------------------------------------ 4. ratings
ScaleMax == 5

\* The numeral \d+(?:\.\d+)? at the start of t: <<length, value>>, or <<>>.
NumPrefix(t) ==
  LET of(ip, fp) == IF ip = 0 THEN <<>>
                    ELSE IF fp > 0 THEN <<ip + 1 + fp, ParseDecimal(SubSeq(t, 1, ip + 1 + fp))[1]>>
                    ELSE <<ip, ParseDecimal(SubSeq(t, 1, ip))[1]>>
      int(ip) == of(ip, IF ip < Len(t) /\ t[ip + 1] = "." THEN DigitRun(t, ip + 2) ELSE 0)
  IN int(DigitRun(t, 1))

Clamp(x) == RMax(RInt(1), RMin(RInt(ScaleMax), x))

\* _parse_rating_val for a text: the rating, or <<>> for None
ParseRatingVal(s) ==
  LET skip(r) == SubSeq(r, SpaceRun(r, 1) + 1, Len(r))
      \* num / den, den being the whole of the text after the stroke
      ratio(a, den, b) ==
        IF b # <<>> /\ b[1] = Len(den) /\ RLt(RInt(0), b[2])
        THEN Clamp(RMul(RDiv(a[2], b[2]), RInt(ScaleMax))) ELSE <<>>
      frac(a, den) == ratio(a, den, NumPrefix(den))
      \* rest is what follows the numeral a and the spaces after it
      suffix(a, rest) ==
        IF StrLower(rest) \in {<<"s","t","a","r">>, <<"s","t","a","r","s">>} THEN Clamp(a[2])
        ELSE IF rest # <<>> /\ rest[1] = "/" THEN frac(a, skip(Tail(rest)))
        ELSE <<>>
      pattern(t, a) == IF a = <<>> THEN <<>>
                       ELSE suffix(a, skip(SubSeq(t, a[1] + 1, Len(t))))
      parse(t, fl) == IF t = <<>> THEN <<>>
                      ELSE IF fl # <<>> /\ RLt(RInt(0), fl[1]) THEN Clamp(fl[1])
                      ELSE pattern(t, NumPrefix(t))
      stripped(t) == parse(t, ParseDecimal(t))
  IN stripped(StrStrip(s))

\* standardize_ratings_pd.  s.apply hands every element of the string
\* column to _parse_rating_val, the missing ones as pd.NA, on which
\* s.strip() raises AttributeError.
StandardizeRatings(t, cfg) ==
  LET column == cfg.ratings.column
      impute == cfg.ratings.impute_strategy
      cell(r) == IF r = <<>> THEN Null ELSE FloatC(r)
      round(parsed, fill_val) ==
        [i \in DOMAIN parsed |->
           IF ~IsNull(parsed[i])
           THEN FloatC(RRound(Val(parsed[i]), cfg.ratings.decimal_places))
           ELSE IF fill_val = <<>> THEN Null
           ELSE FloatC(RRound(fill_val, cfg.ratings.decimal_places))]
      done(s, parsed, fill_val, new) ==
        Ok(new,
           [ratings_changed |-> Cardinality({i \in DOMAIN parsed : ~IsNull(parsed[i])}),
            ratings_imputed |-> IF fill_val = <<>> THEN NullCount(Col(new, column))
                                ELSE Cardinality({i \in DOMAIN s : IsNull(s[i])})])
      filled(s, parsed, fill_val) ==
        done(s, parsed, fill_val, SetColumn(t, column, round(parsed, fill_val)))
      apply(s, parsed) ==
        filled(s, parsed,
               IF impute.kind = "fixed" THEN impute.value
               ELSE IF impute.kind = "mean" THEN Mean(parsed)
               ELSE Median(parsed))
      string(s) ==
        IF \E i \in DOMAIN s : IsNull(s[i]) THEN Raised(t)
        ELSE apply(s, [i \in DOMAIN s |-> cell(ParseRatingVal(Val(s[i])))])
  IN IF column \notin Cols(t) THEN Ok(t, [ratings_changed |-> 0, ratings_imputed |-> 0])
     ELSE string([i \in 1..NRows(t) |-> AsString(t.rows[i][column])])

\* dict.get(x, x) on a mapping from text to text
MapGet(m, x) == IF x \in DOMAIN m THEN m[x] ELSE x

\* left != right on two object columns (pandas vec_compare): a null on
\* either side counts as different.
ObjNe(a, b) == IsNull(a) \/ IsNull(b) \/ ~PyEq(a, b)

\* left != right where one side is a string-dtype column: a null on either
\* side gives <NA>, which fillna(False) turns into "equal".
StrNe(a, b) == ~IsNull(a) /\ ~IsNull(b) /\ ~PyEq(a, b)

\* --------------------------------------------------------- 5. categories
CategoryText(s, f, cfg) ==
  LET c == cfg.categorical
      s1 == IF c.strip THEN StrStrip(s) ELSE s
      s2 == IF c.lowercase THEN StrLower(s1) ELSE s1
      s3 == IF c.replace_ampersand THEN StrReplace(s2, <<"&">>, <<"a", "n", "d">>) ELSE s2
      s4 == IF c.collapse_spaces THEN CollapseSpaces(s3) ELSE s3
      fmap == IF f \in DOMAIN c.mappings THEN c.mappings[f] ELSE <<>>
  IN MapGet(fmap, s4)

CategoryCell(x, f, cfg) == IF IsNull(x) THEN Null ELSE StrC(CategoryText(PyStr(x), f, cfg))

CategoriesField(t, f, cfg) ==
  SetColumn(t, f, [i \in 1..NRows(t) |-> CategoryCell(t.rows[i][f], f, cfg)])

\* With a remap table the new column is of object dtype, without one of
\* string dtype: the two compare nulls differently.
CategoriesCount(t, f, cfg) ==
  LET mapped == f \in DOMAIN cfg.categorical.mappings /\ cfg.categorical.mappings[f] # <<>>
      ne(a, b) == IF mapped THEN ObjNe(a, b) ELSE StrNe(a, b)
  IN Cardinality({i \in 1..NRows(t) : ne(t.rows[i][f], CategoryCell(t.rows[i][f], f, cfg))})

\* standardize_categories_pd
StandardizeCategories(t, cfg) ==
  LET fields == SelectSeq(cfg.categorical.fields, LAMBDA f : f \in Cols(t))
      step(tt, f) == CategoriesField(tt, f, cfg)
      cnt(tt, f) == CategoriesCount(tt, f, cfg)
      done(r) == Ok(r.t, [categories_standardized |-> r.n])
  IN done(FoldCount(step, cnt, t, fields))

\* ---------------------------------------------------------------- 6. geo
\* str.title(): a letter is upper case after a non-letter, else lower case
StrTitle(s) ==
  [i \in DOMAIN s |-> IF i = 1 \/ ~IsAlpha(s[i - 1]) THEN UpperChr(s[i]) ELSE LowerChr(s[i])]

\* _normalize_city_name: non-ASCII dropped, whitespace collapsed, title case
NormalizeCityName(s) ==
  StrTitle(StrStrip(CollapseSpaces(SelectSeq(s, LAMBDA c : c # "~"))))

\* difflib.SequenceMatcher(None, a, b): the total size of the matching
\* blocks.  The longest common block is taken (the earliest in a, then the
\* earliest in b), then the parts left and right of it, recursively.
RECURSIVE MatchSize(_, _)
MatchSize(a, b) ==
  LET split(best) ==
        best[3]
        + MatchSize(SubSeq(a, 1, best[1] - 1), SubSeq(b, 1, best[2] - 1))
        + MatchSize(SubSeq(a, best[1] + best[3], Len(a)), SubSeq(b, best[2] + best[3], Len(b)))
      of(blocks) ==
        IF blocks = {} THEN 0
        ELSE split(CHOOSE x \in blocks : \A y \in blocks :
                     \/ x[3] > y[3]
                     \/ x[3] = y[3] /\ x[1] < y[1]
                     \/ x[3] = y[3] /\ x[1] = y[1] /\ x[2] <= y[2])
  IN of({<<i, j, k>> \in (DOMAIN a) \X (DOMAIN b) \X (1..Len(a)) :
           /\ i + k - 1 <= Len(a) /\ j + k - 1 <= Len(b)
           /\ SubSeq(a, i, i + k - 1) = SubSeq(b, j, j + k - 1)})

\* SequenceMatcher.ratio() = 2 * M / T as a fraction (1 when both are empty)
Ratio(a, b) ==
  IF Len(a) + Len(b) = 0 THEN RInt(1) ELSE Rat(2 * MatchSize(a, b), Len(a) + Len(b))

\* difflib.get_close_matches(word, keys, n=1, cutoff): the key of the best
\* ratio >= cutoff, the greatest text among equal ratios; <<>> as a
\* sequence of at most one key.
CloseMatch(word, keys, cutoff) ==
  LET pick(r, ok) ==
        IF ok = {} THEN <<>>
        ELSE <<keys[CHOOSE i \in ok : \A j \in ok :
                      \/ RLt(r[j], r[i])
                      \/ /\ r[j] = r[i]
                         /\ (keys[i] = keys[j] \/ StrLess(keys[j], keys[i]))]>>
      of(r) == pick(r, {i \in DOMAIN keys : RLe(cutoff, r[i])})
  IN of([i \in DOMAIN keys |-> Ratio(keys[i], word)])

\* canon_norm: normalized name -> canonical name, the last one listed wins
CanonNorm(canonical) ==
  [k \in {NormalizeCityName(canonical[i]) : i \in DOMAIN canonical} |->
     LET js == {i \in DOMAIN canonical : NormalizeCityName(canonical[i]) = k}
     IN canonical[CHOOSE i \in js : \A j \in js : j <= i]]

\* fix(x) with the first two tiers exchanged: the canonical names are
\* consulted before the explicit mappings.
GeoFixCanonFirst(x, cfg) ==
  LET canon_keys == [i \in DOMAIN cfg.geo.canonical_cities |->
                       NormalizeCityName(cfg.geo.canonical_cities[i])]
      fuzzy(canon_norm, m) ==
        IF m # <<>> THEN <<TRUE, StrC(canon_norm[m[1]])>> ELSE <<FALSE, x>>
      text(raw, canon_norm, norm) ==
        IF norm \in DOMAIN canon_norm THEN <<TRUE, StrC(canon_norm[norm])>>
        ELSE IF raw \in DOMAIN cfg.geo.city_mappings
        THEN <<TRUE, StrC(cfg.geo.city_mappings[raw])>>
        ELSE fuzzy(canon_norm, CloseMatch(norm, canon_keys, cfg.geo.fuzzy_threshold))
  IN IF IsNull(x) THEN <<FALSE, x>>
     ELSE text(PyStr(x), CanonNorm(cfg.geo.canonical_cities), NormalizeCityName(PyStr(x)))

\* fix(x): <<resolved, value>>
GeoFix(x, cfg) ==
  LET canon_keys == [i \in DOMAIN cfg.geo.canonical_cities |->
                       NormalizeCityName(cfg.geo.canonical_cities[i])]
      fuzzy(canon_norm, m) ==
        IF m # <<>> THEN <<TRUE, StrC(canon_norm[m[1]])>> ELSE <<FALSE, x>>
      known(canon_norm, norm) ==
        IF norm \in DOMAIN canon_norm THEN <<TRUE, StrC(canon_norm[norm])>>
        ELSE fuzzy(canon_norm, CloseMatch(norm, canon_keys, cfg.geo.fuzzy_threshold))
      text(raw) ==
        IF raw \in DOMAIN cfg.geo.city_mappings THEN <<TRUE, StrC(cfg.geo.city_mappings[raw])>>
        ELSE known(CanonNorm(cfg.geo.canonical_cities), NormalizeCityName(raw))
  IN IF IsNull(x) THEN <<FALSE, x>> ELSE text(PyStr(x))

\* resolve_cities_pd
ResolveCities(t, cfg) ==
  LET column == cfg.geo.city_field
      done(fixed) ==
        Ok(SetColumn(t, column, [i \in DOMAIN fixed |-> fixed[i][2]]),
           [geo_resolved |-> Cardinality({i \in DOMAIN fixed : fixed[i][1]})])
  IN IF column = NoCol \/ column \notin Cols(t) THEN Ok(t, [geo_resolved |-> 0])
     ELSE done([i \in 1..NRows(t) |-> GeoFix(t.rows[i][column], cfg)])

\* ----------------------------------------------------------- 7. booleans
TRUE_SET == {<<"t","r","u","e">>, <<"t">>, <<"y","e","s">>, <<"y">>, <<"1">>}
FALSE_SET == {<<"f","a","l","s","e">>, <<"f">>, <<"n","o">>, <<"n">>, <<"0">>}

\* pb(v)
ParseBool(v) ==
  LET s == StrLower(StrStrip(PyStr(v)))
  IN IF IsNull(v) THEN Null
     ELSE IF Kind(v) = "bool" THEN v
     ELSE IF s \in TRUE_SET THEN BoolC(TRUE)
     ELSE IF s \in FALSE_SET THEN BoolC(FALSE)
     ELSE Null

BooleansField(t, f) ==
  SetColumn(t, f, [i \in 1..NRows(t) |-> ParseBool(t.rows[i][f])])

BooleansCount(t, f) ==
  Cardinality({i \in 1..NRows(t) : ObjNe(ParseBool(t.rows[i][f]), t.rows[i][f])})

\* standardize_booleans_pd
StandardizeBooleans(t, cfg) ==
  LET fields == SelectSeq(cfg.booleans.fields, LAMBDA f : f \in Cols(t))
      done(r) == Ok(r.t, [booleans_standardized |-> r.n])
  IN done(FoldCount(BooleansField, BooleansCount, t, fields))

\* ----------------------------------------------------------- 8. delivery
\* parse(v) with the bare-integer rule before the range rule: the first
\* numeral of a range is taken.
ParseDeliveryFirstNumeral(v) ==
  LET first(s, a) == IF a = 0 THEN <<>> ELSE <<DigitsVal(SubSeq(s, 1, a))>>
      text(s) == IF s \in {<<"s","a","m","e"," ","d","a","y">>, <<"s","a","m","e","d","a","y">>}
                 THEN <<0>>
                 ELSE first(s, DigitRun(s, 1))
  IN IF IsNull(v) THEN <<>> ELSE text(StrLower(StrStrip(PyStr(v))))

\* parse(v): the days as an integer in <<n>>, or <<>> for None
ParseDelivery(v) ==
  LET num(s, i, n) == DigitsVal(SubSeq(s, i, i + n - 1))
      \* a is the length of the first numeral, q where the second would
      \* start and b its length
      second(s, a, q, b) ==
        IF b = 0 THEN <<num(s, 1, a)>>
        ELSE <<IF num(s, 1, a) > num(s, q, b) THEN num(s, 1, a) ELSE num(s, q, b)>>
      after(s, a, q) == second(s, a, q, DigitRun(s, q))
      dash(s, a, p) == IF p <= Len(s) /\ s[p] = "-"
                       THEN after(s, a, p + 1 + SpaceRun(s, p + 1))
                       ELSE <<num(s, 1, a)>>
      first(s, a) == IF a = 0 THEN <<>> ELSE dash(s, a, a + 1 + SpaceRun(s, a + 1))
      text(s) == IF s \in {<<"s","a","m","e"," ","d","a","y">>, <<"s","a","m","e","d","a","y">>}
                 THEN <<0>>
                 ELSE first(s, DigitRun(s, 1))
  IN IF IsNull(v) THEN <<>> ELSE text(StrLower(StrStrip(PyStr(v))))

\* The parsed column with the values above max_days made null instead of
\* clipped.
DeliveryParsedNullAbove(t, cfg) ==
  LET cells(days) ==
        [i \in DOMAIN days |->
           IF days[i] = <<>> \/ days[i][1] < 0 THEN Null
           ELSE IF cfg.delivery.clip_max /\ days[i][1] > cfg.delivery.max_days THEN Null
           ELSE FloatC(RInt(days[i][1]))]
  IN cells([i \in 1..NRows(t) |-> ParseDelivery(t.rows[i][cfg.delivery.column])])

\* The parsed column after mask and clip: float64 as soon as a value is
\* missing, int64 otherwise.
DeliveryParsed(t, cfg) ==
  LET clip(n) == IF cfg.delivery.clip_max /\ n > cfg.delivery.max_days
                 THEN cfg.delivery.max_days ELSE n
      cells(days, whole) ==
        [i \in DOMAIN days |->
           IF days[i] = <<>> \/ days[i][1] < 0 THEN Null
           ELSE NumCell(RInt(clip(days[i][1])), whole)]
      of(days) == cells(days, \A i \in DOMAIN days : days[i] # <<>>)
  IN of([i \in 1..NRows(t) |-> ParseDelivery(t.rows[i][cfg.delivery.column])])

\* standardize_delivery_pd
StandardizeDelivery(t, cfg) ==
  LET column == cfg.delivery.column
      nullified(days) == Cardinality({i \in DOMAIN days : days[i] = <<>> \/ days[i][1] < 0})
      done(parsed) ==
        Ok(SetColumn(t, column, parsed),
           [delivery_changed |->
              Cardinality({i \in DOMAIN parsed : ObjNe(parsed[i], t.rows[i][column])}),
            delivery_nullified |->
              nullified([i \in 1..NRows(t) |-> ParseDelivery(t.rows[i][column])])])
  IN IF column = NoCol \/ column \notin Cols(t)
     THEN Ok(t, [delivery_changed |-> 0, delivery_nullified |-> 0])
     ELSE done(DeliveryParsed(t, cfg))

\* -------------------------------------------------------------- 9. dedup
\* Duplicates decided on the first key column alone, not on the whole subset.
SameKeyFirstOnly(r1, r2, keys) == SameCell(r1[keys[1]], r2[keys[1]])

\* Two rows have the same key tuple (nulls are one key value).
SameKey(r1, r2, keys) == \A k \in Range(keys) : SameCell(r1[k], r2[k])

\* The order in which groupby sorts the values of a key column: numbers by
\* value, then text by code point, nulls last.
CellLess(a, b) ==
  IF IsNull(a) THEN FALSE
  ELSE IF IsNull(b) THEN TRUE
  ELSE IF IsNumeric(a) /\ IsNumeric(b) THEN RLt(NumVal(a), NumVal(b))
  ELSE IF IsStr(a) /\ IsStr(b) THEN StrLess(Val(a), Val(b))
  ELSE IsNumeric(a)

RECURSIVE KeyLess(_, _, _)
KeyLess(r1, r2, keys) ==
  IF keys = <<>> THEN FALSE
  ELSE IF SameCell(r1[Head(keys)], r2[Head(keys)]) THEN KeyLess(r1, r2, Tail(keys))
  ELSE CellLess(r1[Head(keys)], r2[Head(keys)])

\* The indices of the rows that are the first of their key tuple, ascending.
FirstOfKey(rows, keys) ==
  SelectSeq(Indices(rows), LAMBDA i : \A j \in 1..(i - 1) : ~SameKey(rows[j], rows[i], keys))

\* df.drop_duplicates(subset=keys, keep="last"), which deduplicate_pd does
\* not ask for: the last row of each key tuple.
DropDuplicatesKeepLast(t, keys) ==
  LET last == SelectSeq(Indices(t.rows),
                        LAMBDA i : \A j \in (i + 1)..Len(t.rows) :
                                     ~SameKey(t.rows[j], t.rows[i], keys))
  IN [dt |-> t.dt, rows |-> [n \in DOMAIN last |-> t.rows[last[n]]]]

\* df.drop_duplicates(subset=keys, keep="first")
DropDuplicates(t, keys) ==
  LET first == FirstOfKey(t.rows, keys)
  IN [dt |-> t.dt, rows |-> [n \in DOMAIN first |-> t.rows[first[n]]]]

\* GroupBy "first": the first non-null value of the group, null if none
AggFirst(vals) == IF NonNull(vals) = <<>> THEN Null ELSE NonNull(vals)[1]

\* The quantity aggregated like the other columns, by "first" and not by
\* "sum".
AggSumAsFirst(vals, d) == AggFirst(vals)

\* GroupBy "sum": nulls are skipped; text is concatenated
AggSum(vals, d) ==
  LET nn == NonNull(vals)
      RECURSIVE cat(_)
      cat(i) == IF i > Len(nn) THEN <<>> ELSE Val(nn[i]) \o cat(i + 1)
  IN IF nn # <<>> /\ \A i \in DOMAIN nn : IsStr(nn[i]) THEN StrC(cat(1))
     ELSE NumCell(RSum([i \in DOMAIN nn |-> NumVal(nn[i])]),
                  d = "int" \/ (d = "obj" /\ \A i \in DOMAIN nn : Kind(nn[i]) # "float"))

\* Summing a group that mixes text and numbers raises TypeError.
SumRaises(vals) ==
  LET nn == NonNull(vals)
  IN (\E i \in DOMAIN nn : IsStr(nn[i])) /\ (\E i \in DOMAIN nn : ~IsStr(nn[i]))

\* The members of the group of row i, as a sequence of row indices.
GroupOf(rows, keys, i) ==
  SelectSeq(Indices(rows), LAMBDA j : SameKey(rows[j], rows[i], keys))

\* The indices of seq (row indices) sorted by key tuple (insertion sort).
SortByKey(rows, keys, seq) ==
  LET RECURSIVE ins(_, _)
      ins(x, s) == IF s = <<>> THEN <<x>>
                   ELSE IF KeyLess(rows[x], rows[Head(s)], keys) THEN <<x>> \o s
                   ELSE <<Head(s)>> \o ins(x, Tail(s))
      RECURSIVE go(_)
      go(n) == IF n = 0 THEN <<>> ELSE ins(seq[n], go(n - 1))
  IN go(Len(seq))

\* The groupby without as_index=False: the keys leave the columns for the
\* index.
GroupAggregateAsIndex(t, keys, quantity_field) ==
  LET vals(member, c) == [m \in DOMAIN member |-> t.rows[member[m]][c]]
      cell(i, c) ==
        IF c = quantity_field
        THEN Stored(t.dt[c], AggSum(vals(GroupOf(t.rows, keys, i), c), t.dt[c]))
        ELSE AggFirst(vals(GroupOf(t.rows, keys, i), c))
      left == Cols(t) \ Range(keys)
      of(first) ==
        [dt |-> [c \in left |-> t.dt[c]],
         rows |-> [n \in DOMAIN first |-> [c \in left |-> cell(first[n], c)]]]
  IN of(SortByKey(t.rows, keys, FirstOfKey(t.rows, keys)))

\* df.groupby(keys, dropna=False, as_index=False).agg(aggs): one row per key
\* tuple, the groups sorted by key, the quantity summed, "first" elsewhere
GroupAggregate(t, keys, quantity_field) ==
  LET vals(member, c) == [m \in DOMAIN member |-> t.rows[member[m]][c]]
      cell(i, c) ==
        IF c \in Range(keys) THEN t.rows[i][c]
        ELSE IF c = quantity_field
             THEN Stored(t.dt[c], AggSum(vals(GroupOf(t.rows, keys, i), c), t.dt[c]))
        ELSE AggFirst(vals(GroupOf(t.rows, keys, i), c))
      of(first) ==
        [dt |-> t.dt, rows |-> [n \in DOMAIN first |-> [c \in Cols(t) |-> cell(first[n], c)]]]
  IN of(SortByKey(t.rows, keys, FirstOfKey(t.rows, keys)))

\* deduplicate_pd
Deduplicate(t, cfg) ==
  LET key_fields == cfg.dedup.key_fields
      quantity_field == cfg.dedup.quantity_field
      existing_keys == SelectSeq(key_fields, LAMBDA k : k \in Cols(t))
      missing_keys == SelectSeq(key_fields, LAMBDA k : k \notin Cols(t))
      quantities(member) == [m \in DOMAIN member |-> t.rows[member[m]][quantity_field]]
      aggregated(out) ==
        Ok(out, [dropped |-> NRows(t) - NRows(out), kept |-> NRows(out),
                 aggregated |-> TRUE, missing_keys |-> missing_keys])
      dropped(out) ==
        Ok(out, [dropped |-> NRows(t) - NRows(out), kept |-> NRows(out),
                 missing_keys |-> missing_keys])
  IN IF key_fields = <<>> THEN Ok(t, [dropped |-> 0, kept |-> NRows(t)])
     ELSE IF existing_keys = <<>>
          THEN Ok(t, [dropped |-> 0, kept |-> NRows(t), skipped_missing_keys |-> missing_keys])
     ELSE IF cfg.dedup.strategy = "aggregate" /\ quantity_field # NoCol
             /\ quantity_field \in Cols(t)
          THEN IF \E i \in 1..NRows(t) :
                    SumRaises(quantities(GroupOf(t.rows, existing_keys, i)))
               THEN Raised(t)
               ELSE aggregated(GroupAggregate(t, existing_keys, quantity_field))
     ELSE dropped(DropDuplicates(t, existing_keys))

\* Whether deduplicate_pd returns a new table object rather than its argument.
DedupFresh(t, cfg) ==
  \E i \in DOMAIN cfg.dedup.key_fields : cfg.dedup.key_fields[i] \in Cols(t)

\* ----------------------------------------------------------- 10. outliers
\* pd.to_numeric(x, errors="coerce") for one cell: a number cell or Null
ToNumeric(c) ==
  LET text(p) == IF p = <<>> THEN Null ELSE NumCell(p[1], p[2])
  IN IF IsNull(c) THEN Null
     ELSE IF IsNumeric(c) THEN NumCell(NumVal(c), Kind(c) # "float")
     ELSE text(ParseDecimal(StrStrip(Val(c))))

\* x is between lo and hi, both included
RBetween(x, lo, hi) == RLe(lo, x) /\ RLe(x, hi)

\* The loop run over the divisors from the last to the first, so that the
\* last divisor that fits wins.
RECURSIVE DownscaleReversed(_, _, _)
DownscaleReversed(st, med, cands) ==
  IF cands = <<>> THEN st
  ELSE LET cand(i) == RDiv(st.ser[i], RInt(cands[Len(cands)]))
           apply(ok) ==
             [st EXCEPT !.ser = [i \in DOMAIN st.ser |-> IF i \in ok THEN cand(i) ELSE st.ser[i]],
                        !.flagged = st.flagged \ ok,
                        !.corrected = st.corrected + Cardinality(ok)]
       IN DownscaleReversed(apply({i \in st.flagged :
                                     RBetween(cand(i), RDiv(med, RInt(10)), RMul(med, RInt(10)))}),
                            med, SubSeq(cands, 1, Len(cands) - 1))

\* The loop without the line that un-flags the corrected rows: a row stays
\* flagged after its correction and is tried again by the next divisor.
RECURSIVE DownscaleKeepFlagged(_, _, _)
DownscaleKeepFlagged(st, med, cands) ==
  IF cands = <<>> THEN st
  ELSE LET cand(i) == RDiv(st.ser[i], RInt(Head(cands)))
           apply(ok) ==
             [st EXCEPT !.ser = [i \in DOMAIN st.ser |-> IF i \in ok THEN cand(i) ELSE st.ser[i]],
                        !.corrected = st.corrected + Cardinality(ok)]
       IN DownscaleKeepFlagged(apply({i \in st.flagged :
                                        RBetween(cand(i), RDiv(med, RInt(10)), RMul(med, RInt(10)))}),
                               med, Tail(cands))

\* The loop over downscale_candidates.  st = [ser, flagged, corrected]: ser
\* the values (<<>> for NaN), flagged the set of flagged rows.
RECURSIVE Downscale(_, _, _)
Downscale(st, med, cands) ==
  IF cands = <<>> THEN st
  ELSE LET cand(i) == RDiv(st.ser[i], RInt(Head(cands)))
           apply(ok) ==
             [st EXCEPT !.ser = [i \in DOMAIN st.ser |-> IF i \in ok THEN cand(i) ELSE st.ser[i]],
                        !.flagged = st.flagged \ ok,
                        !.corrected = st.corrected + Cardinality(ok)]
       IN Downscale(apply({i \in st.flagged :
                             RBetween(cand(i), RDiv(med, RInt(10)), RMul(med, RInt(10)))}),
                    med, Tail(cands))

\* The state of correct_outliers_pd after its loop.
OutlierState(t, cfg) ==
  LET start(num, ser, med) ==
        IF med = <<>>
        THEN [ser |-> ser, flagged |-> {}, corrected |-> 0, med |-> med, num |-> num]
        ELSE Downscale([ser |-> ser,
                        flagged |-> {i \in DOMAIN ser :
                                       ser[i] # <<>>
                                       /\ RLt(RMul(med, cfg.outliers.high_factor), ser[i])},
                        corrected |-> 0, med |-> med, num |-> num],
                       med, cfg.outliers.downscale_candidates)
      of(num) == start(num,
                       [i \in DOMAIN num |-> IF IsNull(num[i]) THEN <<>> ELSE NumVal(num[i])],
                       Median(num))
  IN of([i \in 1..NRows(t) |-> ToNumeric(t.rows[i][cfg.outliers.column])])

\* correct_outliers_pd
CorrectOutliers(t, cfg) ==
  LET column == cfg.outliers.column
      \* the column stays of integer dtype when nothing is missing, nothing
      \* is fractional and nothing was divided
      round(st, whole) ==
        [i \in 1..NRows(t) |->
           IF st.ser[i] = <<>> THEN Null
           ELSE NumCell(RRound(st.ser[i], cfg.outliers.decimal_places), whole)]
      done(st) ==
        Ok(SetColumn(t, column,
                     round(st, st.corrected = 0
                               /\ \A i \in DOMAIN st.num : Kind(st.num[i]) = "int")),
           [corrected |-> st.corrected, flagged |-> Cardinality(st.flagged),
            median |-> st.med])
  IN IF column = NoCol \/ column \notin Cols(t) THEN Ok(t, [corrected |-> 0, flagged |-> 0])
     ELSE done(OutlierState(t, cfg))

\* ------------------------------------------------------------ 11. payment
AnyIn(t, pats) == \E p \in pats : StrContains(t, p)

\* norm(s)
NormPayment(x, cfg) ==
  LET label(raw, t) ==
        IF AnyIn(t, {<<"u","p","i">>, <<"p","h","o","n","e","p","e">>,
                     <<"g","o","o","g","l","e"," ","p","a","y">>, <<"g","p","a","y">>,
                     <<"g","o","o","g","l","e","p","a","y">>})
        THEN StrC(<<"U","P","I">>)
        ELSE IF AnyIn(t, {<<"c","o","d">>,
                          <<"c","a","s","h"," ","o","n"," ","d","e","l","i","v","e","r","y">>,
                          <<"c","a","s","h","-","o","n","-","d","e","l","i","v","e","r","y">>})
             THEN StrC(<<"C","a","s","h"," ","o","n"," ","D","e","l","i","v","e","r","y">>)
        ELSE IF StrContains(t, <<"d","e","b","i","t">>)
             THEN StrC(<<"D","e","b","i","t"," ","C","a","r","d">>)
        ELSE IF AnyIn(t, {<<"c","r","e","d","i","t"," ","c","a","r","d">>, <<"c","c">>})
             THEN StrC(<<"C","r","e","d","i","t"," ","C","a","r","d">>)
        ELSE IF StrContains(t, <<"n","e","t","b","a","n","k">>)
                \/ StrContains(t, <<"n","e","t"," ","b","a","n","k">>)
             THEN StrC(<<"N","e","t"," ","B","a","n","k","i","n","g">>)
        ELSE IF StrContains(t, <<"w","a","l","l","e","t">>)
             THEN StrC(<<"W","a","l","l","e","t">>)
        ELSE StrC(raw)
      text(raw) ==
        IF raw \in DOMAIN cfg.payment.extra_mappings
        THEN StrC(cfg.payment.extra_mappings[raw])
        ELSE label(raw,
                   StrReplace(StrReplace(StrReplace(StrLower(StrStrip(raw)), <<"_">>, <<" ">>),
                                         <<"c",".","o",".","d">>, <<"c","o","d">>),
                              <<"c","r","e","d","i","t","c","a","r","d">>,
                              <<"c","r","e","d","i","t"," ","c","a","r","d">>))
  IN IF IsNull(x) THEN x ELSE text(PyStr(x))

\* normalize_payment_pd
NormalizePayment(t, cfg) ==
  LET column == cfg.payment.column
      done(new) ==
        Ok(SetColumn(t, column, new),
           [payment_standardized |->
              Cardinality({i \in DOMAIN new : ObjNe(new[i], t.rows[i][column])})])
  IN IF column = NoCol \/ column \notin Cols(t) THEN Ok(t, [payment_standardized |-> 0])
     ELSE done([i \in 1..NRows(t) |-> NormPayment(t.rows[i][column], cfg)])

\* ---------------------------------------------------------- orchestrator
VARIABLES
  raw,      \* the caller's table object (its contents)
  cfg,      \* the configuration passed with it
  df,       \* the table the local variable df of run_cleaning_df refers to
  alias,    \* whether df and raw are one and the same object
  report,   \* the step-report map built so far
  pc,       \* where run_cleaning_df is: "call", a step, "done" or "raised"
  pass,     \* which call this is: "first", "same" (the raw table again) or
            \* "cleaned" (the table the first call returned)
  input,    \* the contents of raw when the call was made
  trace,    \* the steps run by this call: [step, in, out] each
  out1,     \* the table returned by the first call
  rep1      \* the report returned by the first call

vars == <<raw, cfg, df, alias, report, pc, pass, input, trace, out1, rep1>>

\* An order in which outliers would run before dedup.
StepOrderOutliersFirst ==
  <<"missing", "dates", "price", "ratings", "categorical", "geo",
    "booleans", "delivery", "outliers", "dedup", "payment">>

\* The order in which run_cleaning_df runs its steps.
StepOrder == <<"missing", "dates", "price", "ratings", "categorical", "geo",
               "booleans", "delivery", "dedup", "outliers", "payment">>

\* The step after step s, "done" after the last.
After(s) ==
  LET i == CHOOSE j \in DOMAIN StepOrder : StepOrder[j] = s
  IN IF i = Len(StepOrder) THEN "done" ELSE StepOrder[i + 1]

\* What the first line would be without the copy: df stays the caller's
\* object.
NoCopyTable(t) == [t |-> t, alias |-> TRUE]

\* df = df.copy(): a new object with the same contents
CopyTable(t) == [t |-> t, alias |-> FALSE]

\* A step whose report is dropped instead of being put into the map.
ReturnsUnreported(s, r, fresh) ==
  /\ IF r.err
     THEN /\ pc' = "raised"
          /\ UNCHANGED <<raw, df, alias, report, trace>>
     ELSE /\ pc' = After(s)
          /\ df' = r.t
          /\ raw' = IF alias /\ ~fresh THEN r.t ELSE raw
          /\ alias' = (alias /\ ~fresh)
          /\ report' = report
          /\ trace' = Append(trace, [step |-> s, in |-> df, out |-> r.t])
  /\ UNCHANGED <<cfg, pass, input, out1, rep1>>

\* "df, rep = step(df, ...); report[s] = rep" for step s.  r is what the
\* step returns, fresh whether it returns a new table object; an exception
\* ends the call.
Returns(s, r, fresh) ==
  /\ IF r.err
     THEN /\ pc' = "raised"
          /\ UNCHANGED <<raw, df, alias, report, trace>>
     ELSE /\ pc' = After(s)
          /\ df' = r.t
          /\ raw' = IF alias /\ ~fresh THEN r.t ELSE raw
          /\ alias' = (alias /\ ~fresh)
          /\ report' = (s :> r.rep) @@ report
          /\ trace' = Append(trace, [step |-> s, in |-> df, out |-> r.t])
  /\ UNCHANGED <<cfg, pass, input, out1, rep1>>

\* The "if cfg...:" of step s is false: the step is not run.
Skipped(s) ==
  /\ pc' = After(s)
  /\ UNCHANGED <<raw, cfg, df, alias, report, pass, input, trace, out1, rep1>>

\* run_cleaning_df is entered: the copy, the empty report.
Call ==
  /\ pc = "call"
  /\ df' = CopyTable(raw).t
  /\ alias' = CopyTable(raw).alias
  /\ report' = <<>>
  /\ trace' = <<>>
  /\ pc' = StepOrder[1]
  /\ UNCHANGED <<raw, cfg, pass, input, out1, rep1>>

Missing ==
  /\ pc = "missing"
  /\ Returns("missing", ImputeMissing(df, cfg), FALSE)

Dates ==
  /\ pc = "dates"
  /\ Returns("dates", StandardizeDates(df, cfg), FALSE)

Prices ==
  /\ pc = "price"
  /\ Returns("price", StandardizePrices(df, cfg), FALSE)

Ratings ==
  /\ pc = "ratings"
  /\ cfg.ratings.column # NoCol
  /\ Returns("ratings", StandardizeRatings(df, cfg), FALSE)

SkipRatings ==
  /\ pc = "ratings"
  /\ cfg.ratings.column = NoCol
  /\ Skipped("ratings")

Categories ==
  /\ pc = "categorical"
  /\ Returns("categorical", StandardizeCategories(df, cfg), FALSE)

Geo ==
  /\ pc = "geo"
  /\ Returns("geo", ResolveCities(df, cfg), FALSE)

Booleans ==
  /\ pc = "booleans"
  /\ cfg.booleans.fields # <<>>
  /\ Returns("booleans", StandardizeBooleans(df, cfg), FALSE)

SkipBooleans ==
  /\ pc = "booleans"
  /\ cfg.booleans.fields = <<>>
  /\ Skipped("booleans")

Delivery ==
  /\ pc = "delivery"
  /\ cfg.delivery.column # NoCol
  /\ Returns("delivery", StandardizeDelivery(df, cfg), FALSE)

SkipDelivery ==
  /\ pc = "delivery"
  /\ cfg.delivery.column = NoCol
  /\ Skipped("delivery")

Dedup ==
  /\ pc = "dedup"
  /\ cfg.dedup.key_fields # <<>>
  /\ Returns("dedup", Deduplicate(df, cfg), DedupFresh(df, cfg))

SkipDedup ==
  /\ pc = "dedup"
  /\ cfg.dedup.key_fields = <<>>
  /\ Skipped("dedup")

Outliers ==
  /\ pc = "outliers"
  /\ cfg.outliers.column # NoCol
  /\ Returns("outliers", CorrectOutliers(df, cfg), FALSE)

SkipOutliers ==
  /\ pc = "outliers"
  /\ cfg.outliers.column = NoCol
  /\ Skipped("outliers")

Payment ==
  /\ pc = "payment"
  /\ cfg.payment.column # NoCol
  /\ Returns("payment", NormalizePayment(df, cfg), FALSE)

SkipPayment ==
  /\ pc = "payment"
  /\ cfg.payment.column = NoCol
  /\ Skipped("payment")

\* The caller calls run_cleaning_df again with the same raw table.
CallAgainSame ==
  /\ pc = "done" /\ pass = "first"
  /\ pass' = "same"
  /\ pc' = "call"
  /\ out1' = df
  /\ rep1' = report
  /\ trace' = <<>>
  /\ UNCHANGED <<raw, cfg, df, alias, report, input>>

\* The caller calls run_cleaning_df on the table the first call returned.
CallAgainCleaned ==
  /\ pc = "done" /\ pass = "first"
  /\ pass' = "cleaned"
  /\ pc' = "call"
  /\ out1' = df
  /\ rep1' = report
  /\ raw' = df
  /\ input' = df
  /\ alias' = TRUE
  /\ trace' = <<>>
  /\ UNCHANGED <<cfg, df, report>>

Next ==
  \/ Call
  \/ Missing \/ Dates \/ Prices
  \/ Ratings \/ SkipRatings
  \/ Categories \/ Geo
  \/ Booleans \/ SkipBooleans
  \/ Delivery \/ SkipDelivery
  \/ Dedup \/ SkipDedup
  \/ Outliers \/ SkipOutliers
  \/ Payment \/ SkipPayment
  \/ CallAgainSame \/ CallAgainCleaned


\* ------------------------------------------------------------ the inputs
\* CleaningConfig() with every field at its default (config.py).
DefaultCfg ==
  [missing |-> [numeric_strategy |-> "median", include |-> <<>>, exclude |-> <<>>],
   dates |-> [fields |-> <<>>, target_format |-> <<"Y", "-", "m", "-", "d">>,
              input_formats |-> <<<<"Y", "-", "m", "-", "d">>,
                                 <<"d", "-", "m", "-", "Y">>,
                                 <<"d", "/", "m", "/", "Y">>,
                                 <<"m", "/", "d", "/", "Y">>,
                                 <<"d", "-", "b", "-", "Y">>,
                                 <<"d", " ", "b", " ", "Y">>,
                                 <<"b", " ", "d", ",", " ", "Y">>,
                                 <<"Y", "/", "m", "/", "d">>,
                                 <<"d", ".", "m", ".", "Y">>>>,
              invalid_to_null |-> FALSE],
   price |-> [fields |-> <<>>, decimal_places |-> 2, coerce_invalid_to_null |-> FALSE],
   categorical |-> [fields |-> <<>>, lowercase |-> TRUE, strip |-> TRUE,
                    collapse_spaces |-> TRUE, replace_ampersand |-> TRUE,
                    mappings |-> <<>>],
   geo |-> [city_field |-> NoCol, canonical_cities |-> <<>>, city_mappings |-> <<>>,
            fuzzy_threshold |-> Rat(85, 100)],
   ratings |-> [column |-> NoCol, decimal_places |-> 1,
                impute_strategy |-> [kind |-> "median", value |-> RInt(0)]],
   booleans |-> [fields |-> <<>>],
   delivery |-> [column |-> NoCol, max_days |-> 30, clip_max |-> TRUE],
   payment |-> [column |-> NoCol, extra_mappings |-> <<>>],
   dedup |-> [key_fields |-> <<>>, quantity_field |-> NoCol, strategy |-> "keep_first"],
   outliers |-> [column |-> NoCol, high_factor |-> RInt(50),
                 downscale_candidates |-> <<10, 100>>, decimal_places |-> 2]]

\* The tables have a key column k, a quantity column q and a column x whose
\* cells are drawn from the pool of the role the configuration gives it: a
\* well-formed text, a malformed one, and a missing cell.
Pool(role) ==
  CASE role = "flag" -> {StrC(<<"Y", "e", "s">>), StrC(<<"m", "a", "y", "b", "e">>), Null}
    [] role = "price" -> {StrC(<<"~", "1", ",", "2", "9", "9", ".", "5">>), StrC(<<"f", "r", "e", "e">>), Null}
    [] role = "date" -> {StrC(<<"0", "5", "/", "0", "1", "/", "2", "0", "2", "4">>), StrC(<<"s", "o", "o", "n">>), Null}
    [] role = "rating" -> {StrC(<<"4", " ", "s", "t", "a", "r", "s">>), StrC(<<"b", "a", "d">>), Null}
    [] role = "cat" -> {StrC(<<" ", "A", " ", "&", "B">>), StrC(<<"e", "l", "e", "c">>), Null}
    [] role = "city" -> {StrC(<<"p", "u", "n", "e", " ">>), StrC(<<"X", "y", "z">>), Null}
    [] role = "deliv" -> {StrC(<<"3", "-", "5", " ", "d", "a", "y", "s">>), StrC(<<"s", "o", "o", "n">>), Null}
    [] role = "pay" -> {StrC(<<"g", "p", "a", "y">>), StrC(<<"c", "h", "e", "q", "u", "e">>), Null}
    [] OTHER -> {StrC(<<"a">>), StrC(<<"b">>), Null}

\* The configuration that gives column x the role.
RoleCfg(role) ==
  CASE role = "flag" -> [DefaultCfg EXCEPT !.booleans.fields = <<"x">>]
    [] role = "price" -> [DefaultCfg EXCEPT !.price.fields = <<"x">>]
    [] role = "date" -> [DefaultCfg EXCEPT !.dates.fields = <<"x">>]
    [] role = "rating" -> [DefaultCfg EXCEPT !.ratings.column = "x"]
    [] role = "cat" -> [DefaultCfg EXCEPT !.categorical.fields = <<"x">>,
                          !.categorical.mappings = ("x" :> (<<"e", "l", "e", "c">> :> <<"e", "l", "e", "c", "t", "r", "o", "n", "i", "c", "s">>))]
    [] role = "city" -> [DefaultCfg EXCEPT !.geo.city_field = "x",
                           !.geo.canonical_cities = <<<<"P", "u", "n", "e">>, <<"D", "e", "l", "h", "i">>>>,
                           !.geo.city_mappings = (<<"B", "o", "m", "b", "a", "y">> :> <<"M", "u", "m", "b", "a", "i">>)]
    [] role = "deliv" -> [DefaultCfg EXCEPT !.delivery.column = "x"]
    [] role = "pay" -> [DefaultCfg EXCEPT !.payment.column = "x"]
    [] OTHER -> DefaultCfg

\* How the rest of the configuration varies: the duplicate handling, whether
\* x is kept out of the imputation, whether q is searched for outliers, and
\* whether an unparsable date or price is to become null.
WithOptions(c, dd, excl, outl, tonull) ==
  [c EXCEPT
     !.dedup = IF dd = "keep" THEN [@ EXCEPT !.key_fields = <<"k">>]
               ELSE IF dd = "agg"
               THEN [key_fields |-> <<"k">>, quantity_field |-> "q", strategy |-> "aggregate"]
               ELSE @,
     !.missing.exclude = IF excl THEN <<"x">> ELSE @,
     !.outliers.column = IF outl THEN "q" ELSE @,
     !.dates.invalid_to_null = tonull,
     !.price.coerce_invalid_to_null = tonull]

\* The configurations run: <<role of x, dedup, exclude x, outliers, to null>>.
Profiles ==
  {<<"flag", "keep", FALSE, TRUE, FALSE>>,
   <<"price", "agg", FALSE, FALSE, FALSE>>,
   <<"price", "none", TRUE, FALSE, TRUE>>,
   <<"date", "none", FALSE, TRUE, FALSE>>,
   <<"date", "keep", TRUE, FALSE, TRUE>>,
   <<"rating", "none", FALSE, FALSE, FALSE>>,
   <<"rating", "keep", TRUE, FALSE, FALSE>>,
   <<"cat", "agg", FALSE, FALSE, FALSE>>,
   <<"city", "none", FALSE, TRUE, FALSE>>,
   <<"deliv", "keep", FALSE, FALSE, FALSE>>,
   <<"deliv", "none", TRUE, TRUE, FALSE>>,
   <<"pay", "agg", FALSE, FALSE, FALSE>>,
   <<"none", "agg", FALSE, TRUE, FALSE>>}

ProfileCfg(p) == WithOptions(RoleCfg(p[1]), p[2], p[3], p[4], p[5])

\* The key and quantity of a row.
KeyQty == {<<IntC(1), FloatC(RInt(2))>>, <<IntC(1), Null>>, <<IntC(2), FloatC(RInt(3))>>}

\* The rows a table of the role is made of.
RowsOf(role) ==
  {[c \in {"k", "q", "x"} |-> IF c = "k" THEN kq[1] ELSE IF c = "q" THEN kq[2] ELSE x] :
     kq \in KeyQty, x \in Pool(role)}

\* A table as pd.read_csv builds it: an integer key column, a float quantity
\* column, and x of the dtype inferred from its cells.
MkTable(rows) ==
  [dt |-> [c \in {"k", "q", "x"} |->
             IF c = "k" THEN "int" ELSE IF c = "q" THEN "float"
             ELSE InferDtype([i \in DOMAIN rows |-> rows[i]["x"]])],
   rows |-> rows]

TablesOf(role) ==
  {MkTable(rows) : rows \in UNION {[1..n -> RowsOf(role)] : n \in 1..MaxRows}}

Init ==
  /\ \E p \in Profiles :
       /\ cfg = ProfileCfg(p)
       /\ raw \in TablesOf(p[1])
  /\ df = raw
  /\ input = raw
  /\ alias = TRUE
  /\ report = <<>>
  /\ trace = <<>>
  /\ pc = "call"
  /\ pass = "first"
  /\ out1 = raw
  /\ rep1 = <<>>

Spec == Init /\ [][Next]_vars

\* ------------------------------------------------- properties of the run
\* The step order the specification states.
ClaimedOrder == <<"missing", "dates", "price", "ratings", "categorical", "geo",
                  "booleans", "delivery", "dedup", "outliers", "payment">>

\* Whether the configuration has what step s works on: target fields, a
\* column, key columns.  Imputation needs none.
HasConfiguration(s) ==
  CASE s = "dates" -> cfg.dates.fields # <<>>
    [] s = "price" -> cfg.price.fields # <<>>
    [] s = "ratings" -> cfg.ratings.column # NoCol
    [] s = "categorical" -> cfg.categorical.fields # <<>>
    [] s = "geo" -> cfg.geo.city_field # NoCol
    [] s = "booleans" -> cfg.booleans.fields # <<>>
    [] s = "delivery" -> cfg.delivery.column # NoCol
    [] s = "dedup" -> cfg.dedup.key_fields # <<>>
    [] s = "outliers" -> cfg.outliers.column # NoCol
    [] s = "payment" -> cfg.payment.column # NoCol
    [] OTHER -> TRUE

\* The steps the specification makes conditional on their configuration.
Conditional == {"ratings", "booleans", "delivery", "dedup", "outliers", "payment"}

\* The steps the specification says are run: the conditional ones when
\* configured, the others always.
EnabledSteps ==
  SelectSeq(ClaimedOrder, LAMBDA s : s \notin Conditional \/ HasConfiguration(s))

\* The names of the steps run so far by the current call.
StepsRun == [i \in DOMAIN trace |-> trace[i].step]

\* Two tables are equal row for row and cell for cell.
TablesEqual(a, b) ==
  /\ Cols(a) = Cols(b)
  /\ NRows(a) = NRows(b)
  /\ \A i \in 1..NRows(a) : \A c \in Cols(a) : SameCell(a.rows[i][c], b.rows[i][c])

\* C1: the steps run are, in this order and with none left out, the enabled
\* ones of missing, dates, price, ratings, categorical, geo, booleans,
\* delivery, dedup, outliers, payment; the first works on the copy of the
\* input, each later one on the table the step before it produced, and the
\* table returned is the one the last step produced.  So the median that
\* outliers reports is the median of the column as dedup left it.
C1_FixedOrder ==
  /\ \E n \in 0..Len(EnabledSteps) : StepsRun = SubSeq(EnabledSteps, 1, n)
  /\ pc = "done" => StepsRun = EnabledSteps
  /\ trace # <<>> => TablesEqual(trace[1].in, input)
  /\ \A i \in 1..(Len(trace) - 1) : trace[i + 1].in = trace[i].out
  /\ (trace # <<>> /\ pc # "raised") => df = trace[Len(trace)].out
  /\ \A i \in 2..Len(trace) :
       (trace[i].step = "outliers" /\ "median" \in DOMAIN report["outliers"])
       => report["outliers"].median
            = Median([r \in 1..NRows(trace[i - 1].out) |->
                        ToNumeric(trace[i - 1].out.rows[r][cfg.outliers.column])])

\* C1 witness: a finished call in which dedup dropped a row before outliers
\* ran on what was left.
C1_Witness ==
  /\ pc = "done"
  /\ \E i \in 2..Len(trace) :
       /\ trace[i].step = "outliers" /\ trace[i - 1].step = "dedup"
       /\ NRows(trace[i].in) < NRows(input)

\* C2 as stated: at the end of a call no step without configuration is a key
\* of the report, dates, price, categorical and geo included.
C2_SkippedAbsent ==
  pc = "done" => \A s \in Range(ClaimedOrder) : ~HasConfiguration(s) => s \notin DOMAIN report

\* C2 amended: at the end of a call ratings, booleans, delivery, dedup,
\* outliers and payment are keys of the report exactly when configured;
\* missing, dates, price, categorical and geo are always keys of it, with an
\* empty per-field map (a zero count for geo) when nothing is configured.
C2_SkippedAbsentAmended ==
  pc = "done" =>
    /\ \A s \in Conditional : s \in DOMAIN report <=> HasConfiguration(s)
    /\ Range(ClaimedOrder) \ Conditional \subseteq DOMAIN report
    /\ ~HasConfiguration("dates") => report["dates"].dates_converted = <<>>
    /\ ~HasConfiguration("price") => report["price"].prices_standardized = <<>>
    /\ ~HasConfiguration("categorical")
         => report["categorical"].categories_standardized = <<>>
    /\ ~HasConfiguration("geo") => report["geo"].geo_resolved = 0

\* C2 witness: a finished call whose configuration has neither date fields
\* nor a ratings column: dates is reported, ratings is not.
C2_Witness ==
  /\ pc = "done"
  /\ ~HasConfiguration("dates") /\ "dates" \in DOMAIN report
  /\ ~HasConfiguration("ratings") /\ "ratings" \notin DOMAIN report
  /\ HasConfiguration("dedup") /\ "dedup" \in DOMAIN report

\* What a step of the pipeline leaves as it was.
RowsAndColumnsKept ==
  pc \in Range(ClaimedOrder) =>
    /\ Cols(df') = Cols(input)
    /\ pc # "dedup" => NRows(df') = NRows(df)
    /\ pc = "dedup" => NRows(df') <= NRows(df)

\* C3: every step but dedup leaves the number of rows as it was, dedup may
\* only lower it, and after every step the column names are those of the
\* input table.
C3_RowsAndColumns == [][RowsAndColumnsKept]_vars

\* C3 witness: dedup by aggregation has just collapsed two rows into one.
C3_Witness ==
  /\ pc = "outliers"
  /\ trace # <<>> /\ trace[Len(trace)].step = "dedup"
  /\ cfg.dedup.strategy = "aggregate"
  /\ NRows(df) < NRows(trace[Len(trace)].in)
  /\ Cols(df) = Cols(input)

\* C4: the caller's table holds, during and after the call, what it held
\* when the call was made; the table the call works on and returns is
\* another object; and a second call on the same raw table returns a table
\* and a report equal to those of the first.
C4_InputUntouched ==
  /\ raw = input
  /\ pc # "call" => ~alias
  /\ (pass = "same" /\ pc = "done") => df = out1 /\ report = rep1

\* C4 witness: the second call on the same raw table has finished, and the
\* cleaned table differs from the raw one.
C4_Witness ==
  /\ pass = "same" /\ pc = "done"
  /\ ~TablesEqual(df, raw)

\* Every count of a per-field report is zero.
AllZero(counts) == \A f \in DOMAIN counts : counts[f] = 0

\* Every count of every step report is zero.
ReportAllZero(rep) ==
  /\ AllZero(rep["missing"].numeric) /\ AllZero(rep["missing"].categorical)
  /\ AllZero(rep["dates"].dates_converted)
  /\ AllZero(rep["price"].prices_standardized)
  /\ "ratings" \in DOMAIN rep
       => rep["ratings"].ratings_changed = 0 /\ rep["ratings"].ratings_imputed = 0
  /\ AllZero(rep["categorical"].categories_standardized)
  /\ rep["geo"].geo_resolved = 0
  /\ "booleans" \in DOMAIN rep => AllZero(rep["booleans"].booleans_standardized)
  /\ "delivery" \in DOMAIN rep
       => rep["delivery"].delivery_changed = 0 /\ rep["delivery"].delivery_nullified = 0
  /\ "dedup" \in DOMAIN rep => rep["dedup"].dropped = 0
  /\ "outliers" \in DOMAIN rep => rep["outliers"].corrected = 0
  /\ "payment" \in DOMAIN rep => rep["payment"].payment_standardized = 0

\* C5: a call on the table a first call returned, with the same
\* configuration, returns a table equal to it row for row and cell for cell.
C5_TableIdempotent ==
  (pass = "cleaned" /\ pc = "done") => TablesEqual(df, out1)

\* C6: in the report of a call on the table a first call returned, with the
\* same configuration, every count of every step is zero.
C6_ReportIdempotent ==
  (pass = "cleaned" /\ pc = "done") => ReportAllZero(report)

\* C7: no call raises, whatever the cells of the table: each runs to its end.
C7_NeverRaises == pc # "raised"

\* ------------------------------------------------ deduplicate_pd by itself
\* Tables with two key columns k and j, a quantity q and one more column c;
\* k, q and c may be missing in a row.
DedupRows ==
  [k : {IntC(1), Null}, j : {StrC(<<"a">>), StrC(<<"b">>)}, q : {IntC(2), Null},
   c : {StrC(<<"x">>), Null}]

\* A table as pd.read_csv builds it from the rows: every column of the dtype
\* inferred from its cells.
MkDedupTable(rows) ==
  LET dt == [c \in {"k", "j", "q", "c"} |-> InferDtype([i \in DOMAIN rows |-> rows[i][c]])]
  IN [dt |-> dt,
      rows |-> [i \in DOMAIN rows |-> [c \in DOMAIN dt |-> Stored(dt[c], rows[i][c])]]]

DedupTables ==
  {MkDedupTable(rows) : rows \in UNION {[1..n -> DedupRows] : n \in 1..MaxRows}}

\* The dedup configurations: one key, two keys, keys the table lacks (one of
\* two, one of three, the only one); keeping the first row, aggregating over
\* q, and aggregating with no quantity column or one (w) the table lacks.
DedupCfgs ==
  {[DefaultCfg EXCEPT !.dedup = [key_fields |-> keys, quantity_field |-> sq[2],
                                 strategy |-> sq[1]]] :
     keys \in {<<"k">>, <<"k", "j">>, <<"j", "z">>, <<"k", "z", "j">>, <<"z">>},
     sq \in {<<"keep_first", NoCol>>, <<"aggregate", "q">>,
             <<"aggregate", NoCol>>, <<"aggregate", "w">>}}

InitDedup ==
  /\ raw \in DedupTables
  /\ cfg \in DedupCfgs
  /\ df = raw
  /\ input = raw
  /\ alias = FALSE
  /\ report = <<>>
  /\ trace = <<>>
  /\ pc = "dedup"
  /\ pass = "first"
  /\ out1 = raw
  /\ rep1 = <<>>

NextDedup == Dedup

SpecDedup == InitDedup /\ [][NextDedup]_vars

\* The key columns the table has.
PresentKeys == SelectSeq(cfg.dedup.key_fields, LAMBDA k : k \in Cols(input))

\* Two rows have the same values on the present key columns.
SameTuple(r1, r2) == \A k \in Range(PresentKeys) : SameCell(r1[k], r2[k])

\* The input rows that no earlier input row shares its key tuple with.
FirstRows ==
  {i \in 1..NRows(input) : \A j \in 1..(i - 1) : ~SameTuple(input.rows[j], input.rows[i])}

\* The n-th of them.
NthFirst(n) == CHOOSE i \in FirstRows : Cardinality({j \in FirstRows : j < i}) = n - 1

\* The number of distinct key tuples of the input.
DistinctTuples ==
  Cardinality({[k \in Range(PresentKeys) |-> input.rows[i][k]] : i \in 1..NRows(input)})

\* The sum of the quantities of the input rows with the key tuple of row r.
GroupTotal(r) ==
  LET members == SelectSeq([i \in 1..NRows(input) |-> i],
                           LAMBDA i : /\ SameTuple(input.rows[i], r)
                                      /\ ~IsNull(input.rows[i][cfg.dedup.quantity_field]))
  IN RSum([m \in DOMAIN members |-> NumVal(input.rows[members[m]][cfg.dedup.quantity_field])])

\* deduplicate_pd has returned, having kept the first rows.
KeptFirst ==
  /\ pc = After("dedup")
  /\ cfg.dedup.strategy = "keep_first"
  /\ PresentKeys # <<>>

\* deduplicate_pd has returned, having aggregated over a quantity column of
\* the table.
Aggregated ==
  /\ pc = After("dedup")
  /\ cfg.dedup.strategy = "aggregate"
  /\ cfg.dedup.quantity_field \in Cols(input)
  /\ PresentKeys # <<>>

\* C8: with keep_first the output is made of the input rows that no earlier
\* row shares its key tuple with, in their order and with their cells as
\* they were; dropped + kept is the number of input rows and kept the number
\* of distinct key tuples.
C8_KeepFirst ==
  KeptFirst =>
    /\ NRows(df) = Cardinality(FirstRows)
    /\ \A n \in 1..NRows(df) : df.rows[n] = input.rows[NthFirst(n)]
    /\ report["dedup"].dropped + report["dedup"].kept = NRows(input)
    /\ report["dedup"].kept = DistinctTuples

\* C8 witness: keep_first over two key columns dropped the second of two
\* rows with the same key tuple, a missing key value included.
C8_Witness ==
  /\ KeptFirst
  /\ Len(PresentKeys) = 2
  /\ NRows(input) = 2 /\ NRows(df) = 1
  /\ IsNull(input.rows[1]["k"])
  /\ input.rows[1] # input.rows[2]

C10_FirstWins ==
  Aggregated =>
    \A n \in 1..NRows(df) : \A c \in Cols(input) \ (Range(PresentKeys) \cup {cfg.dedup.quantity_field}) :
      \E i \in FirstRows :
        /\ SameTuple(input.rows[i], df.rows[n])
        /\ SameCell(df.rows[n][c], input.rows[i][c])

\* The key columns of the configuration that the table lacks.
AbsentKeys == SelectSeq(cfg.dedup.key_fields, LAMBDA k : k \notin Cols(input))

\* deduplicate_pd has returned, asked to aggregate with no quantity column
\* configured or with one the table lacks.
AggregateWithoutQuantity ==
  /\ pc = After("dedup")
  /\ cfg.dedup.strategy = "aggregate"
  /\ cfg.dedup.quantity_field \notin Cols(input)

\* C11: asked to aggregate when the quantity column is not configured or is
\* not a column of the table, deduplicate_pd returns the table and the counts
\* that keep_first returns on the same input: the rows that no earlier row
\* shares its key tuple with, in their order, cells as they were, no row
\* aggregated.
C11_AggregateAsKeepFirst ==
  AggregateWithoutQuantity =>
    /\ df = Deduplicate(input, [cfg EXCEPT !.dedup.strategy = "keep_first"]).t
    /\ report["dedup"] = Deduplicate(input, [cfg EXCEPT !.dedup.strategy = "keep_first"]).rep
    /\ PresentKeys # <<>> =>
         /\ NRows(df) = Cardinality(FirstRows)
         /\ \A n \in 1..NRows(df) : df.rows[n] = input.rows[NthFirst(n)]
         /\ report["dedup"].kept = Cardinality(FirstRows)
         /\ report["dedup"].dropped = NRows(input) - Cardinality(FirstRows)
         /\ "aggregated" \notin DOMAIN report["dedup"]

\* C11 witness: asked to aggregate over w, which the table lacks, dedup kept
\* the first of two rows with the same key and left its missing c missing,
\* where an aggregation would have taken the c of the second row.
C11_Witness ==
  /\ AggregateWithoutQuantity
  /\ cfg.dedup.quantity_field = "w"
  /\ NRows(input) = 2 /\ NRows(df) = 1
  /\ IsNull(input.rows[1]["c"]) /\ ~IsNull(input.rows[2]["c"])
  /\ IsNull(df.rows[1]["c"])

\* C12: when the table has none of the key columns dedup returns it as it
\* was, with dropped 0, kept the number of rows and the missing keys listed;
\* when it has some of them there is one output row for each distinct tuple
\* of values on the present key columns, and the missing ones are listed.
C12_MissingKeys ==
  (pc = After("dedup") /\ cfg.dedup.key_fields # <<>>) =>
    IF PresentKeys = <<>>
    THEN /\ df = input
         /\ report["dedup"].dropped = 0
         /\ report["dedup"].kept = NRows(input)
         /\ report["dedup"].skipped_missing_keys = AbsentKeys
    ELSE /\ NRows(df) = DistinctTuples
         /\ \A i \in 1..NRows(input) :
              Cardinality({n \in 1..NRows(df) : SameTuple(df.rows[n], input.rows[i])}) = 1
         /\ report["dedup"].dropped = NRows(input) - DistinctTuples
         /\ report["dedup"].kept = DistinctTuples
         /\ report["dedup"].missing_keys = AbsentKeys

\* C12 witness: of the keys k, z, j the table lacks z; two rows with the same
\* k and different j are both kept, and z is reported missing.
C12_Witness ==
  /\ pc = After("dedup")
  /\ cfg.dedup.key_fields = <<"k", "z", "j">>
  /\ NRows(input) = 2 /\ NRows(df) = 2
  /\ SameCell(input.rows[1]["k"], input.rows[2]["k"])
  /\ report["dedup"].missing_keys = <<"z">>

\* C12, the other case: the only key z is not a column; two equal rows are
\* both returned.
C12_NoKeyPresent ==
  /\ pc = After("dedup")
  /\ cfg.dedup.key_fields = <<"z">>
  /\ NRows(input) = 2 /\ input.rows[1] = input.rows[2]
  /\ df = input

\* --------------------------------------------- correct_outliers_pd by itself
\* The number of rows of the tables of quantities: a median with an outlier
\* far above it takes three values.
MaxQty == 3

\* The quantities: an ordinary value, one that the first divisor brings into
\* range, one that only the second does (and whose quotient has more decimals
\* than are kept), one that no divisor does, a value with three decimals, a
\* text that is no number, a missing value.  The fractions are exact in
\* binary, so that rounding them is the same in floating point.
QtyPool ==
  {IntC(100), IntC(6000), FloatC(Rat(20001, 2)), IntC(200000),
   FloatC(Rat(801, 8)), StrC(<<"n", "/", "a">>), Null}

\* A table as pd.read_csv builds it: a column q of the quantities, all of
\* them text when one of them is (the column is then of dtype object), and a
\* column c.
MkQtyTable(qs) ==
  LET text == \E i \in DOMAIN qs : IsStr(qs[i])
      cells == [i \in DOMAIN qs |-> IF text THEN AsString(qs[i]) ELSE qs[i]]
      dq == InferDtype(cells)
  IN [dt |-> [col \in {"q", "c"} |-> IF col = "q" THEN dq ELSE "obj"],
      rows |-> [i \in DOMAIN qs |->
                  [col \in {"q", "c"} |-> IF col = "q" THEN Stored(dq, cells[i])
                                          ELSE StrC(<<"x">>)]]]

QtyTables == {MkQtyTable(qs) : qs \in UNION {[1..n -> QtyPool] : n \in 1..MaxQty}}

\* Outlier correction on q with the default factor and precision, the
\* divisors in the default order and in the other one.
OutlierCfgs ==
  {[DefaultCfg EXCEPT !.outliers.column = "q", !.outliers.downscale_candidates = cands] :
     cands \in {<<10, 100>>, <<100, 10>>}}

InitOutliers ==
  /\ raw \in QtyTables
  /\ cfg \in OutlierCfgs
  /\ df = raw
  /\ input = raw
  /\ alias = FALSE
  /\ report = <<>>
  /\ trace = <<>>
  /\ pc = "outliers"
  /\ pass = "first"
  /\ out1 = raw
  /\ rep1 = <<>>

SpecOutliers == InitOutliers /\ [][Outliers]_vars

\* The quantity of input row i as pd.to_numeric reads it (Null when it is no
\* number), and the median of the quantities of the input.
QtyIn(i) == ToNumeric(input.rows[i][cfg.outliers.column])
QtyMedian == Median([i \in 1..NRows(input) |-> QtyIn(i)])

\* Input row i is flagged: its quantity exceeds median x high_factor.
Flagged(i) ==
  /\ ~IsNull(QtyIn(i)) /\ QtyMedian # <<>>
  /\ RLt(RMul(QtyMedian, cfg.outliers.high_factor), NumVal(QtyIn(i)))

\* The quantity of row i divided by d, and the range [median/10, median x 10].
Quotient(i, d) == RDiv(NumVal(QtyIn(i)), RInt(d))
InRange(x) == RLe(RDiv(QtyMedian, RInt(10)), x) /\ RLe(x, RMul(QtyMedian, RInt(10)))

\* The place, in the configured order, of the first divisor whose quotient
\* is in range; 0 when there is none.
FirstFit(i) ==
  LET fits == {n \in DOMAIN cfg.outliers.downscale_candidates :
                 InRange(Quotient(i, cfg.outliers.downscale_candidates[n]))}
  IN IF fits = {} THEN 0 ELSE CHOOSE n \in fits : \A m \in fits : n <= m

\* Row i is corrected: flagged, and some divisor fits.
Accepted(i) == Flagged(i) /\ FirstFit(i) # 0

\* correct_outliers_pd has returned.
OutliersDone == pc = After("outliers")

\* The cell of the outlier column in output row i.
QtyOut(i) == df.rows[i][cfg.outliers.column]

C13_SecondDivisor ==
  /\ OutliersDone
  /\ \E i \in 1..NRows(input) :
       /\ Accepted(i) /\ FirstFit(i) = 2
       /\ NumVal(QtyOut(i)) # Quotient(i, cfg.outliers.downscale_candidates[2])

\* C14: with the median 100, the factor 50 and the default divisors 10, 100
\* a quantity of 6000 is flagged, becomes 60.00, and is not among the
\* quantities the report counts as flagged.
C14_SixThousand ==
  (/\ OutliersDone
   /\ cfg.outliers.downscale_candidates = DefaultCfg.outliers.downscale_candidates
   /\ cfg.outliers.high_factor = RInt(50)
   /\ QtyMedian = RInt(100)) =>
    \A i \in 1..NRows(input) :
      (~IsNull(QtyIn(i)) /\ NumVal(QtyIn(i)) = RInt(6000)) =>
        /\ Flagged(i)
        /\ ~IsNull(QtyOut(i)) /\ NumVal(QtyOut(i)) = RInt(60)
        /\ report["outliers"].flagged
             <= Cardinality({j \in 1..NRows(input) : Flagged(j) /\ j # i})

\* A cell after the step holds what it held before: the same value, a text
\* that reads as a number counting as that number.
Unchanged(a, b) ==
  \/ SameCell(a, b)
  \/ IsStr(a) /\ ~IsNull(ToNumeric(a)) /\ SameCell(ToNumeric(a), b)

\* C15: the step changes a cell of the configured column only if its
\* quantity was accepted for correction; a quantity that stays flagged, one
\* never flagged, a text that is no number and a quantity with more decimals
\* than decimal_places are after the step what they were, and so are the
\* cells of the other columns.
C15_OnlyCorrectedChange ==
  OutliersDone =>
    \A i \in 1..NRows(input) :
      /\ ~Accepted(i) => Unchanged(input.rows[i][cfg.outliers.column], QtyOut(i))
      /\ \A c \in Cols(input) \ {cfg.outliers.column} : df.rows[i][c] = input.rows[i][c]

\* ----------------------------------------- the text steps, each by itself
\* A table as pd.read_csv builds it from a column x of texts and missing
\* cells (dtype object, float64 when every cell is missing) and a column c.
MkTextTable(xs) ==
  LET dx == InferDtype(xs)
  IN [dt |-> [col \in {"x", "c"} |-> IF col = "x" THEN dx ELSE "obj"],
      rows |-> [i \in DOMAIN xs |->
                  [col \in {"x", "c"} |-> IF col = "x" THEN Stored(dx, xs[i])
                                          ELSE StrC(<<"c">>)]]]

TextTables(pool) == {MkTextTable(xs) : xs \in UNION {[1..n -> pool] : n \in 1..MaxRows}}

\* The dates: an ISO date, a date that reads as month/day or as day/month, a
\* date that reads as day/month only, a text that is no date, a missing cell.
DatePool ==
  {StrC(<<"2", "0", "2", "4", "-", "0", "1", "-", "0", "5">>), StrC(<<"0", "1", "/", "0", "2", "/", "2", "0", "2", "4">>), StrC(<<"1", "3", "/", "0", "2", "/", "2", "0", "2", "4">>), StrC(<<"s", "o", "o", "n">>), Null}

\* Date standardization of x: the default formats and shorter lists of
\* them, two target formats, unparsable values kept or made null.
DateCfgs ==
  {[DefaultCfg EXCEPT !.dates.fields = <<"x">>, !.dates.input_formats = fmts,
                      !.dates.target_format = tf, !.dates.invalid_to_null = tonull] :
     fmts \in {DefaultCfg.dates.input_formats,
               << <<"d", "/", "m", "/", "Y">>, <<"m", "/", "d", "/", "Y">> >>,
               << <<"m", "/", "d", "/", "Y">>, <<"d", "/", "m", "/", "Y">> >>,
               << <<"d", "/", "m", "/", "Y">> >>,
               << <<"Y", "-", "m", "-", "d">> >>},
     tf \in {DefaultCfg.dates.target_format, <<"d", " ", "b", " ", "Y">>},
     tonull \in BOOLEAN}

InitDates ==
  /\ raw \in TextTables(DatePool)
  /\ cfg \in DateCfgs
  /\ df = raw
  /\ input = raw
  /\ alias = FALSE
  /\ report = <<>>
  /\ trace = <<>>
  /\ pc = "dates"
  /\ pass = "first"
  /\ out1 = raw
  /\ rep1 = <<>>

SpecDates == InitDates /\ [][Dates]_vars

\* standardize_dates_pd has returned.
DatesDone == pc = After("dates")

\* The cell of the date column x in input row i and in output row i.
DateIn(i) == input.rows[i]["x"]
DateOut(i) == df.rows[i]["x"]

\* What the default parser makes of input row i, the column being parsed as
\* a whole.
DefaultDate(i) == DefaultParse([j \in 1..NRows(input) |-> AsString(DateIn(j))])[i]

\* The places, in the configured list, of the formats that the text of input
\* row i matches.
Matching(i) ==
  IF IsNull(DateIn(i)) THEN {}
  ELSE {n \in DOMAIN cfg.dates.input_formats :
          Strptime(cfg.dates.input_formats[n], Val(DateIn(i))) # NaT}

\* The date row i has by the n-th configured format, and its rendering in
\* the target format.
DateBy(i, n) == Strptime(cfg.dates.input_formats[n], Val(DateIn(i)))
Rendered(dt) == StrC(Strftime(cfg.dates.target_format, dt))

C16_KeptRaw ==
  /\ DatesDone /\ ~cfg.dates.invalid_to_null
  /\ \E i \in 1..NRows(input) :
       /\ IsStr(DateIn(i)) /\ DefaultDate(i) = NaT /\ Matching(i) = {}
       /\ DateOut(i) = DateIn(i)

\* C17: with invalid_to_null false, a value that matches one of the
\* configured input formats becomes the target-format rendering of the date
\* a format it matches denotes, and a value that matches none of them is
\* after the step exactly what it was.
C17_RoundTrip ==
  (DatesDone /\ ~cfg.dates.invalid_to_null) =>
    \A i \in 1..NRows(input) :
      IF Matching(i) # {}
      THEN \E n \in Matching(i) : DateOut(i) = Rendered(DateBy(i, n))
      ELSE DateOut(i) = DateIn(i)

\* ------------------------------------------ standardize_prices_pd by itself
\* The prices: an accounting-style negative with a thousands separator, a
\* price with a currency sign, one with three decimals, a text that is no
\* price, an empty text, a missing cell.
PricePool ==
  {StrC(<<"(", "1", ",", "2", "3", "4", ".", "5", "0", ")">>), StrC(<<"$", "9", "9", "9">>), StrC(<<"1", "2", ".", "3", "4", "6">>), StrC(<<"N", "/", "A">>), StrC(<<>>), Null}

\* Price normalization of x to two decimals or to none, unparsable values
\* kept or made null.
PriceCfgs ==
  {[DefaultCfg EXCEPT !.price.fields = <<"x">>, !.price.decimal_places = dp,
                      !.price.coerce_invalid_to_null = tonull] :
     dp \in {DefaultCfg.price.decimal_places, 0}, tonull \in BOOLEAN}

InitPrices ==
  /\ raw \in TextTables(PricePool)
  /\ cfg \in PriceCfgs
  /\ df = raw
  /\ input = raw
  /\ alias = FALSE
  /\ report = <<>>
  /\ trace = <<>>
  /\ pc = "price"
  /\ pass = "first"
  /\ out1 = raw
  /\ rep1 = <<>>

SpecPrices == InitPrices /\ [][Prices]_vars

\* standardize_prices_pd has returned.
PricesDone == pc = After("price")

\* The cell of the price column x in input row i and in output row i.
PriceIn(i) == input.rows[i]["x"]
PriceOut(i) == df.rows[i]["x"]

\* The number each price text of the pool stands for, <<>> when it stands
\* for none.
PriceValue(c) ==
  IF IsNull(c) THEN <<>>
  ELSE CASE Val(c) = <<"(", "1", ",", "2", "3", "4", ".", "5", "0", ")">> -> <<Rat(0 - 12345, 10)>>
         [] Val(c) = <<"$", "9", "9", "9">> -> <<RInt(999)>>
         [] Val(c) = <<"1", "2", ".", "3", "4", "6">> -> <<Rat(12346, 1000)>>
         [] OTHER -> <<>>

\* C18: per value of the configured field, a value that parses as a number
\* once stripped becomes that number rounded to decimal_places; a value
\* that does not parse keeps its raw value, or becomes null when
\* coerce_invalid_to_null is set; the count reported for the field is the
\* number of values that parsed.
C18_PriceOrRaw ==
  PricesDone =>
    /\ \A i \in 1..NRows(input) :
         IF PriceValue(PriceIn(i)) # <<>>
         THEN /\ IsNum(PriceOut(i))
              /\ NumVal(PriceOut(i)) = RRound(PriceValue(PriceIn(i))[1], cfg.price.decimal_places)
         ELSE IF cfg.price.coerce_invalid_to_null THEN IsNull(PriceOut(i))
         ELSE PriceOut(i) = PriceIn(i)
    /\ report["price"].prices_standardized["x"]
         = Cardinality({i \in 1..NRows(input) : PriceValue(PriceIn(i)) # <<>>})

\* C18 witness: in one column a parenthesized price became a negative
\* number whose rounding changed it, and a text that is no price was kept;
\* the count is 1.
C18_Witness ==
  /\ PricesDone /\ ~cfg.price.coerce_invalid_to_null
  /\ \E i, j \in 1..NRows(input) :
       /\ PriceValue(PriceIn(i)) # <<>>
       /\ RLt(PriceValue(PriceIn(i))[1], RInt(0))
       /\ IsNum(PriceOut(i)) /\ NumVal(PriceOut(i)) # PriceValue(PriceIn(i))[1]
       /\ IsStr(PriceIn(j)) /\ PriceValue(PriceIn(j)) = <<>>
       /\ PriceOut(j) = PriceIn(j)
  /\ report["price"].prices_standardized["x"] = 1

\* C18 second witness: with coerce_invalid_to_null a text that is no price
\* became null.
C18_MadeNull ==
  /\ PricesDone /\ cfg.price.coerce_invalid_to_null
  /\ \E i \in 1..NRows(input) : IsStr(PriceIn(i)) /\ IsNull(PriceOut(i))

\* ----------------------------------------- standardize_ratings_pd by itself
\* The ratings: a bare number above the scale, a fraction, a count of stars,
\* a bare zero, a text that is no rating, a blank text, a missing cell.
RatingPool ==
  {StrC(<<"7">>), StrC(<<"3", "/", "5">>), StrC(<<"4", " ", "s", "t", "a", "r", "s">>), StrC(<<"0">>), StrC(<<"b", "a", "d">>), StrC(<<" ", " ">>), Null}

\* Ratings normalization of x with each impute strategy.
RatingCfgs ==
  {[DefaultCfg EXCEPT !.ratings.column = "x", !.ratings.impute_strategy = imp] :
     imp \in {DefaultCfg.ratings.impute_strategy,
              [kind |-> "mean", value |-> RInt(0)],
              [kind |-> "fixed", value |-> RInt(3)]}}

InitRatings ==
  /\ raw \in TextTables(RatingPool)
  /\ cfg \in RatingCfgs
  /\ df = raw
  /\ input = raw
  /\ alias = FALSE
  /\ report = <<>>
  /\ trace = <<>>
  /\ pc = "ratings"
  /\ pass = "first"
  /\ out1 = raw
  /\ rep1 = <<>>

SpecRatings == InitRatings /\ [][Ratings]_vars

\* standardize_ratings_pd has returned.
RatingsDone == pc = After("ratings")

\* The cell of the ratings column x in input row i and in output row i.
RatingIn(i) == input.rows[i]["x"]
RatingOut(i) == df.rows[i]["x"]

\* The rating each text of the pool stands for on the scale 1..5, <<>> when
\* it is in none of the three forms.
RatingValue(c) ==
  IF IsNull(c) THEN <<>>
  ELSE CASE Val(c) = <<"7">> -> <<RInt(5)>>
         [] Val(c) = <<"3", "/", "5">> -> <<RInt(3)>>
         [] Val(c) = <<"4", " ", "s", "t", "a", "r", "s">> -> <<RInt(4)>>
         [] Val(c) = <<"0">> -> <<RInt(1)>>
         [] OTHER -> <<>>

\* The ratings of the input column, the cells in none of the forms null.
RatingsRead ==
  [i \in 1..NRows(input) |->
     IF RatingValue(RatingIn(i)) = <<>> THEN Null ELSE FloatC(RatingValue(RatingIn(i))[1])]

\* The configured impute value: the fixed number, or the mean or median of
\* the ratings read; <<>> when there is none.
ImputeValue ==
  IF cfg.ratings.impute_strategy.kind = "fixed" THEN cfg.ratings.impute_strategy.value
  ELSE IF cfg.ratings.impute_strategy.kind = "mean" THEN Mean(RatingsRead)
  ELSE Median(RatingsRead)

\* C19: a value in one of the three forms becomes its number clamped into
\* [1, 5]; every other value, blank or missing, counts as null and is filled
\* with the impute value, so that the step leaves no null in the column
\* when some value parsed or a fixed value is configured.
C19_ParsedOrFilled ==
  pc # "ratings" =>
    /\ RatingsDone
    /\ \A i \in 1..NRows(input) :
         IF ~IsNull(RatingsRead[i])
         THEN RatingOut(i) = FloatC(RRound(Val(RatingsRead[i]), cfg.ratings.decimal_places))
         ELSE ImputeValue # <<>> =>
                RatingOut(i) = FloatC(RRound(ImputeValue, cfg.ratings.decimal_places))

\* The same for the columns without a missing cell and without a bare zero.
C19_ParsedOrFilledNoNull ==
  (\A i \in 1..NRows(input) : ~IsNull(RatingIn(i)) /\ RatingIn(i) # StrC(<<"0">>))
     => C19_ParsedOrFilled

\* C20: ratings_changed is the number of values that parsed, and
\* ratings_imputed the number of cells that were null after parsing
\* (missing, blank or unparsable) and were filled with the impute value.
C20_Counts ==
  RatingsDone =>
    /\ report["ratings"].ratings_changed
         = Cardinality({i \in 1..NRows(input) : ~IsNull(RatingsRead[i])})
    /\ report["ratings"].ratings_imputed
         = Cardinality({i \in 1..NRows(input) :
                          IsNull(RatingsRead[i]) /\ ~IsNull(RatingOut(i))})

\* A bare zero is read as no rating: alone in its column, with the median
\* as impute value, it is null after the step.
C19_ZeroIsNull ==
  /\ RatingsDone /\ NRows(input) = 1
  /\ RatingIn(1) = StrC(<<"0">>) /\ IsNull(RatingOut(1))

\* An unparsable text beside a parsed one is filled with the median, and
\* ratings_imputed is 0.
C20_UnparsableNotCounted ==
  /\ RatingsDone /\ NRows(input) = 2
  /\ cfg.ratings.impute_strategy.kind = "median"
  /\ RatingIn(1) = StrC(<<"4", " ", "s", "t", "a", "r", "s">>) /\ RatingIn(2) = StrC(<<"b", "a", "d">>)
  /\ RatingOut(1) = FloatC(RInt(4)) /\ RatingOut(2) = FloatC(RInt(4))
  /\ report["ratings"] = [ratings_changed |-> 1, ratings_imputed |-> 0]

\* C30: the corrected count and the flagged count of the report add up to
\* the number of quantities that exceeded median x high_factor at the start;
\* every corrected quantity is counted once, whatever the number of divisors
\* that fit it; a quantity is counted as flagged iff it was flagged at the
\* start and no configured divisor brings it into [median/10, median x 10].
C30_Accounting ==
  OutliersDone =>
    /\ report["outliers"].corrected + report["outliers"].flagged
         = Cardinality({i \in 1..NRows(input) : Flagged(i)})
    /\ report["outliers"].corrected
         = Cardinality({i \in 1..NRows(input) :
                          Flagged(i) /\ \E n \in DOMAIN cfg.outliers.downscale_candidates :
                                          InRange(Quotient(i, cfg.outliers.downscale_candidates[n]))})
    /\ report["outliers"].flagged
         = Cardinality({i \in 1..NRows(input) :
                          Flagged(i) /\ \A n \in DOMAIN cfg.outliers.downscale_candidates :
                                          ~InRange(Quotient(i, cfg.outliers.downscale_candidates[n]))})

\* C30 witness: the one quantity flagged at the start is brought into range
\* by both divisors and is counted as corrected once, not as flagged.
C30_Witness ==
  /\ OutliersDone
  /\ report["outliers"].corrected = 1 /\ report["outliers"].flagged = 0
  /\ \E i \in 1..NRows(input) :
       /\ Flagged(i)
       /\ Len(cfg.outliers.downscale_candidates) = 2
       /\ \A n \in DOMAIN cfg.outliers.downscale_candidates :
            InRange(Quotient(i, cfg.outliers.downscale_candidates[n]))

\* C30, the other count: a quantity flagged at the start that no divisor
\* fits is the one counted as flagged.
C30_StillFlagged ==
  /\ OutliersDone
  /\ report["outliers"].corrected = 0 /\ report["outliers"].flagged = 1
  /\ \E i \in 1..NRows(input) : Flagged(i) /\ FirstFit(i) = 0

\* ------------------------------------------------ impute_missing_pd by itself
\* The number of rows of the tables to impute: a mean that differs from the
\* median takes three values, beside the missing one.
MaxFill == 4

\* The rows: a number n and a text s, either of them missing.
FillRows ==
  {[n |-> nv[1], s |-> nv[2]] :
     nv \in {<<IntC(1), StrC(<<"a">>)>>, <<IntC(2), StrC(<<"b">>)>>, <<IntC(6), StrC(<<"b">>)>>,
             <<Null, StrC(<<"a">>)>>, <<IntC(1), Null>>}}

\* A table of such rows: n of the dtype of its cells (float64 when one is
\* missing), s of dtype object, or float64 when every cell of it is missing
\* and the table was read from a file.
MkFillTable(rows, obj) ==
  LET dn == InferDtype([i \in DOMAIN rows |-> rows[i].n])
      ds == IF obj THEN "obj" ELSE InferDtype([i \in DOMAIN rows |-> rows[i].s])
  IN [dt |-> [c \in {"n", "s"} |-> IF c = "n" THEN dn ELSE ds],
      rows |-> [i \in DOMAIN rows |->
                  [c \in {"n", "s"} |-> IF c = "n" THEN Stored(dn, rows[i].n)
                                        ELSE Stored(ds, rows[i].s)]]]

FillTables ==
  {MkFillTable(rows, obj) :
     rows \in UNION {[1..k -> FillRows] : k \in 1..MaxFill}, obj \in BOOLEAN}

\* Imputation with each strategy (any name but "mean" standing for the
\* median), on all columns, on an include list, with an exclude list.
FillCfgs ==
  {[DefaultCfg EXCEPT !.missing.numeric_strategy = st, !.missing.include = ie[1],
                      !.missing.exclude = ie[2]] :
     st \in {"mean", "median", "mode"},
     ie \in {<<<<>>, <<>>>>, <<<<"n">>, <<>>>>, <<<<"s", "w">>, <<>>>>, <<<<>>, <<"s">>>>}}

InitMissing ==
  /\ raw \in FillTables
  /\ cfg \in FillCfgs
  /\ df = raw
  /\ input = raw
  /\ alias = FALSE
  /\ report = <<>>
  /\ trace = <<>>
  /\ pc = "missing"
  /\ pass = "first"
  /\ out1 = raw
  /\ rep1 = <<>>

SpecMissing == InitMissing /\ [][Missing]_vars

\* impute_missing_pd has returned.
MissingDone == pc = After("missing")

\* The target columns: the include list, or every column when it is empty,
\* without the exclude list.
Targets ==
  {c \in Cols(input) :
     /\ cfg.missing.include = <<>> \/ c \in Range(cfg.missing.include)
     /\ c \notin Range(cfg.missing.exclude)}

\* The non-null cells of input column c, and the values among them that no
\* other value occurs more often than.
Present(c) == {i \in 1..NRows(input) : ~IsNull(input.rows[i][c])}
Times(c, v) == Cardinality({i \in Present(c) : input.rows[i][c] = v})
MostFrequent(c) ==
  {input.rows[i][c] : i \in {i \in Present(c) :
                               \A j \in Present(c) :
                                 Times(c, input.rows[j][c]) <= Times(c, input.rows[i][c])}}

\* The mean or the median of input column c, as the strategy has it.
Central(c) ==
  IF cfg.missing.numeric_strategy = "mean" THEN Mean(Col(input, c)) ELSE Median(Col(input, c))

\* What the claims say of the cells: a null of a numeric target column is
\* the mean or median, a null of another target column a most frequent
\* value, a column without a value and every other cell is unchanged.
CellsImputed ==
  \A i \in 1..NRows(input) : \A c \in Cols(input) :
    IF c \notin Targets \/ ~IsNull(input.rows[i][c]) \/ Present(c) = {}
    THEN df.rows[i][c] = input.rows[i][c]
    ELSE IF IsNumericDtype(input.dt[c]) THEN df.rows[i][c] = FloatC(Central(c))
    ELSE df.rows[i][c] \in MostFrequent(c)

\* The number of null cells of input column c, and the count the report
\* gives for it (-1 when it gives none).
NullsBefore(c) == NRows(input) - Cardinality(Present(c))
Reported(c) ==
  IF c \in DOMAIN report["missing"].numeric THEN report["missing"].numeric[c]
  ELSE IF c \in DOMAIN report["missing"].categorical THEN report["missing"].categorical[c]
  ELSE 0 - 1

\* C21: the cells are imputed as stated, and the report gives for every
\* target column the number of its cells that were null before the fill.
C21_Imputation ==
  MissingDone =>
    /\ CellsImputed
    /\ \A c \in Targets : Reported(c) = NullsBefore(c)

\* C21 as the code has it: the report gives the count for every numeric
\* target column and for every other target column that has a non-null
\* value; a non-numeric column without a non-null value has no entry, and
\* neither has a column that is no target.
C21_ImputationAmended ==
  MissingDone =>
    /\ CellsImputed
    /\ \A c \in Cols(input) :
         Reported(c) = IF c \in Targets /\ (IsNumericDtype(input.dt[c]) \/ Present(c) # {})
                       THEN NullsBefore(c) ELSE 0 - 1
    /\ DOMAIN report["missing"].numeric = {c \in Targets : IsNumericDtype(input.dt[c])}

\* C21 witness: with the mean as strategy, a null of n beside three numbers
\* whose mean is not their median was filled with the mean, and a null of s
\* with the text that occurs twice; both counts are 1.
C21_Witness ==
  /\ MissingDone /\ cfg.missing.numeric_strategy = "mean"
  /\ Targets = {"n", "s"}
  /\ \E i, j \in 1..NRows(input) :
       /\ IsNull(input.rows[i]["n"]) /\ Mean(Col(input, "n")) # Median(Col(input, "n"))
       /\ df.rows[i]["n"] = FloatC(Mean(Col(input, "n")))
       /\ IsNull(input.rows[j]["s"]) /\ df.rows[j]["s"] = StrC(<<"b">>)
  /\ Reported("n") = 1 /\ Reported("s") = 1

\* C21, the column without an entry: a target column of dtype object with
\* no non-null value is left as it is and the report has no count for it.
C21_NoEntry ==
  /\ MissingDone
  /\ \E c \in Targets :
       /\ ~IsNumericDtype(input.dt[c]) /\ Present(c) = {}
       /\ c \notin DOMAIN report["missing"].categorical
       /\ df = input

\* -------------------------------------- standardize_categories_pd by itself
\* The categories: a text with outer spaces, capitals and an ampersand, a
\* key of the remap table, the same with a capital, a text with a double
\* space, a missing cell.
CategoryPool ==
  {StrC(<<" ", "A", " ", "&", "B">>), StrC(<<"e", "l", "e", "c">>), StrC(<<"E", "l", "e", "c">>), StrC(<<"a", " ", " ", "b">>), Null}

\* Category standardization of x: every transformation on, every one off,
\* trimming alone off, lowercasing alone off; without a remap table and with
\* one that has a normalized text and a raw text as keys.
CategoryCfgs ==
  {[DefaultCfg EXCEPT !.categorical.fields = <<"x">>,
                      !.categorical.strip = fl[1], !.categorical.lowercase = fl[2],
                      !.categorical.replace_ampersand = fl[3],
                      !.categorical.collapse_spaces = fl[3],
                      !.categorical.mappings = mp] :
     fl \in {<<TRUE, TRUE, TRUE>>, <<FALSE, FALSE, FALSE>>,
             <<FALSE, TRUE, TRUE>>, <<TRUE, FALSE, TRUE>>},
     mp \in {<<>>, ("x" :> ((<<"e", "l", "e", "c">> :> <<"e", "l", "e", "c", "t", "r", "o", "n", "i", "c", "s">>) @@ (<<" ", "A", " ", "&", "B">> :> <<"r", "a", "w">>)))}}

InitCategories ==
  /\ raw \in TextTables(CategoryPool)
  /\ cfg \in CategoryCfgs
  /\ df = raw
  /\ input = raw
  /\ alias = FALSE
  /\ report = <<>>
  /\ trace = <<>>
  /\ pc = "categorical"
  /\ pass = "first"
  /\ out1 = raw
  /\ rep1 = <<>>

SpecCategories == InitCategories /\ [][Categories]_vars

\* standardize_categories_pd has returned.
CategoriesDone == pc = After("categorical")

\* The text s trimmed, lowercased, with "and" for "&" and with its
\* whitespace collapsed, as far as each is enabled, in that order.
Normalized(s) ==
  LET trim(a) == IF cfg.categorical.strip THEN StrStrip(a) ELSE a
      lower(a) == IF cfg.categorical.lowercase THEN StrLower(a) ELSE a
      amp(a) == IF cfg.categorical.replace_ampersand
                THEN StrReplace(a, <<"&">>, <<"a", "n", "d">>) ELSE a
      collapse(a) == IF cfg.categorical.collapse_spaces THEN CollapseSpaces(a) ELSE a
  IN collapse(amp(lower(trim(s))))

\* The remap table of field x, empty when there is none.
Remap == IF "x" \in DOMAIN cfg.categorical.mappings THEN cfg.categorical.mappings["x"] ELSE <<>>

\* The final text of a text s: the table's value for the normalized text,
\* or the normalized text when it is no key.
FinalText(s) == IF Normalized(s) \in DOMAIN Remap THEN Remap[Normalized(s)] ELSE Normalized(s)

\* The cells of x after the step are the final texts of the cells before.
CategoryCells ==
  \A i \in 1..NRows(input) :
    IF IsNull(input.rows[i]["x"]) THEN IsNull(df.rows[i]["x"])
    ELSE df.rows[i]["x"] = StrC(FinalText(Val(input.rows[i]["x"])))

\* C22: per value the enabled transformations are applied in the order trim,
\* lowercase, "&" to "and", collapse whitespace, and the result is looked up
\* in the field's remap table; the count reported for the field is the
\* number of values whose final text differs from the original.
C22_NormalizeThenRemap ==
  CategoriesDone =>
    /\ CategoryCells
    /\ report["categorical"].categories_standardized["x"]
         = Cardinality({i \in 1..NRows(input) :
                          /\ ~IsNull(input.rows[i]["x"])
                          /\ FinalText(Val(input.rows[i]["x"])) # Val(input.rows[i]["x"])})

\* The same for the runs without a remap table or without a missing cell.
C22_WithoutNullRemapped ==
  (Remap = <<>> \/ \A i \in 1..NRows(input) : ~IsNull(input.rows[i]["x"]))
    => C22_NormalizeThenRemap

\* With a remap table a missing cell, which stays missing, is counted among
\* the values standardized.
C22_NullCounted ==
  /\ CategoriesDone /\ NRows(input) = 2
  /\ input.rows[1]["x"] = StrC(<<"e", "l", "e", "c">>) /\ IsNull(input.rows[2]["x"])
  /\ df.rows[1]["x"] = StrC(<<"e", "l", "e", "c", "t", "r", "o", "n", "i", "c", "s">>) /\ IsNull(df.rows[2]["x"])
  /\ report["categorical"].categories_standardized["x"] = 2

\* A key of the remap table that is a raw text is not matched once the text
\* is normalized: the normalized text is the result.
C22_RawKeyUnmatched ==
  /\ CategoriesDone
  /\ \E i \in 1..NRows(input) :
       /\ input.rows[i]["x"] = StrC(<<" ", "A", " ", "&", "B">>)
       /\ <<" ", "A", " ", "&", "B">> \in DOMAIN Remap
       /\ df.rows[i]["x"] = StrC(<<"a", " ", "a", "n", "d", "b">>)

\* ---------------------------------------------- resolve_cities_pd by itself
\* The cities: a key of the explicit mappings that is a canonical name too,
\* a canonical name in another spelling, a misspelt canonical name (its
\* similarity to "Delhi" is 0.8), a name like none, a missing cell.
CityPool ==
  {StrC(<<"B", "o", "m", "b", "a", "y">>), StrC(<<"p", "u", "n", "e", " ">>), StrC(<<"D", "e", "h", "l", "i">>), StrC(<<"X", "y", "z">>), Null}

\* City resolution of x: with and without canonical names, with and without
\* explicit mappings, the default threshold and the threshold 0.8.
CityCfgs ==
  {[DefaultCfg EXCEPT !.geo.city_field = "x", !.geo.canonical_cities = canon,
                      !.geo.city_mappings = mp, !.geo.fuzzy_threshold = thr] :
     canon \in {<<>>, <<<<"P", "u", "n", "e">>, <<"D", "e", "l", "h", "i">>, <<"B", "o", "m", "b", "a", "y">>>>},
     mp \in {<<>>, (<<"B", "o", "m", "b", "a", "y">> :> <<"M", "u", "m", "b", "a", "i">>)},
     thr \in {DefaultCfg.geo.fuzzy_threshold, Rat(8, 10)}}

InitGeo ==
  /\ raw \in TextTables(CityPool)
  /\ cfg \in CityCfgs
  /\ df = raw
  /\ input = raw
  /\ alias = FALSE
  /\ report = <<>>
  /\ trace = <<>>
  /\ pc = "geo"
  /\ pass = "first"
  /\ out1 = raw
  /\ rep1 = <<>>

SpecGeo == InitGeo /\ [][Geo]_vars

\* resolve_cities_pd has returned.
GeoDone == pc = After("geo")

\* The cell of the city column x in input row i and in output row i.
CityIn(i) == input.rows[i]["x"]
CityOut(i) == df.rows[i]["x"]

\* The tiers for a text s.  First: s is a key of the explicit mappings.
\* Second: the canonical names whose normalization is that of s.  Third: the
\* canonical names whose normalization is at least as similar to that of s
\* as the threshold asks and as any other canonical name is.
Canonical == Range(cfg.geo.canonical_cities)
Mapped(s) == s \in DOMAIN cfg.geo.city_mappings
Exact(s) == {c \in Canonical : NormalizeCityName(c) = NormalizeCityName(s)}
Similarity(c, s) == Ratio(NormalizeCityName(c), NormalizeCityName(s))
Closest(s) ==
  {c \in Canonical :
     /\ RLe(cfg.geo.fuzzy_threshold, Similarity(c, s))
     /\ \A d \in Canonical : RLe(Similarity(d, s), Similarity(c, s))}

\* The tier that resolves s: 1, 2, 3, or 0 when none does.
Tier(s) ==
  IF Mapped(s) THEN 1 ELSE IF Exact(s) # {} THEN 2 ELSE IF Closest(s) # {} THEN 3 ELSE 0

\* C23: per non-null value the explicit mappings are consulted with the raw
\* text, then the canonical names with the normalized text, then the fuzzy
\* match under the threshold; the result is that of the first tier that
\* matches; a value no tier matches and a null are returned unchanged;
\* geo_resolved is the number of values that some tier matched.
C23_FirstTierWins ==
  GeoDone =>
    /\ \A i \in 1..NRows(input) :
         IF IsNull(CityIn(i)) THEN CityOut(i) = CityIn(i)
         ELSE CASE Tier(Val(CityIn(i))) = 1 ->
                     CityOut(i) = StrC(cfg.geo.city_mappings[Val(CityIn(i))])
                [] Tier(Val(CityIn(i))) = 2 ->
                     \E c \in Exact(Val(CityIn(i))) : CityOut(i) = StrC(c)
                [] Tier(Val(CityIn(i))) = 3 ->
                     \E c \in Closest(Val(CityIn(i))) : CityOut(i) = StrC(c)
                [] OTHER -> CityOut(i) = CityIn(i)
    /\ report["geo"].geo_resolved
         = Cardinality({i \in 1..NRows(input) :
                          ~IsNull(CityIn(i)) /\ Tier(Val(CityIn(i))) # 0})

\* C23 witness: a value that is a key of the mappings and a canonical name
\* as well got the value of the mappings, beside a value that only the fuzzy
\* tier resolved, its similarity being exactly the threshold; both count.
C23_Witness ==
  /\ GeoDone
  /\ \E i, j \in 1..NRows(input) :
       /\ ~IsNull(CityIn(i)) /\ Mapped(Val(CityIn(i))) /\ Exact(Val(CityIn(i))) # {}
       /\ CityOut(i) = StrC(cfg.geo.city_mappings[Val(CityIn(i))])
       /\ StrC(cfg.geo.city_mappings[Val(CityIn(i))]) \notin {StrC(c) : c \in Exact(Val(CityIn(i)))}
       /\ ~IsNull(CityIn(j)) /\ Tier(Val(CityIn(j))) = 3
       /\ \E c \in Closest(Val(CityIn(j))) :
            Similarity(c, Val(CityIn(j))) = cfg.geo.fuzzy_threshold /\ CityOut(j) = StrC(c)
  /\ report["geo"].geo_resolved = 2

\* C23, below the threshold: the misspelt name, whose similarity 0.8 is under
\* the default threshold, is returned unchanged and is not counted.
C23_BelowThreshold ==
  /\ GeoDone /\ NRows(input) = 1
  /\ CityIn(1) = StrC(<<"D", "e", "h", "l", "i">>) /\ Canonical # {}
  /\ cfg.geo.fuzzy_threshold = DefaultCfg.geo.fuzzy_threshold
  /\ CityOut(1) = CityIn(1) /\ report["geo"].geo_resolved = 0

\* ---------------------------------------- standardize_booleans_pd by itself
\* The flags: words for true and for false in several spellings, a word
\* that is neither, a native boolean, a missing cell.
FlagPool ==
  {StrC(<<"Y", "e", "s">>), StrC(<<" ", "Y", " ">>), StrC(<<"n", "o">>), StrC(<<"0">>), StrC(<<"m", "a", "y", "b", "e">>), BoolC(FALSE), Null}

\* Boolean coercion of x, alone and beside a field that is no column.
FlagCfgs ==
  {[DefaultCfg EXCEPT !.booleans.fields = fs] : fs \in {<<"x">>, <<"w", "x">>}}

InitBooleans ==
  /\ raw \in TextTables(FlagPool)
  /\ cfg \in FlagCfgs
  /\ df = raw
  /\ input = raw
  /\ alias = FALSE
  /\ report = <<>>
  /\ trace = <<>>
  /\ pc = "booleans"
  /\ pass = "first"
  /\ out1 = raw
  /\ rep1 = <<>>

SpecBooleans == InitBooleans /\ [][Booleans]_vars

\* standardize_booleans_pd has returned.
BooleansDone == pc = After("booleans")

\* The cell of the flag column x in input row i and in output row i.
FlagIn(i) == input.rows[i]["x"]
FlagOut(i) == df.rows[i]["x"]

\* What each cell of the pool is to become.
FlagValue(c) ==
  IF c \in {StrC(<<"Y", "e", "s">>), StrC(<<" ", "Y", " ">>)} THEN BoolC(TRUE)
  ELSE IF c \in {StrC(<<"n", "o">>), StrC(<<"0">>), BoolC(FALSE)} THEN BoolC(FALSE)
  ELSE Null

\* C24: a value whose trimmed, lowercased text is a word for true becomes
\* true, one that is a word for false becomes false, a native boolean is
\* unchanged, a null stays null and every other value becomes null; every
\* cell is then true, false or null; the count reported for the field is the
\* number of values whose coerced value differs from the original.
C24_Coercion ==
  BooleansDone =>
    /\ \A i \in 1..NRows(input) :
         /\ FlagOut(i) = FlagValue(FlagIn(i))
         /\ FlagOut(i) \in {BoolC(TRUE), BoolC(FALSE), Null}
    /\ report["booleans"].booleans_standardized["x"]
         = Cardinality({i \in 1..NRows(input) : FlagOut(i) # FlagIn(i)})

\* The same for the columns without a missing cell.
C24_CoercionNoNull ==
  (\A i \in 1..NRows(input) : ~IsNull(FlagIn(i))) => C24_Coercion

\* A missing cell, which stays missing, is counted among the values
\* standardized.
C24_NullCounted ==
  /\ BooleansDone /\ NRows(input) = 2
  /\ FlagIn(1) = StrC(<<"Y", "e", "s">>) /\ IsNull(FlagIn(2))
  /\ FlagOut(1) = BoolC(TRUE) /\ IsNull(FlagOut(2))
  /\ report["booleans"].booleans_standardized["x"] = 2

\* ---------------------------------------- standardize_delivery_pd by itself
\* The delivery times: "same day" in capitals, a range, a range with the
\* greater bound first, a number of days above the default maximum, a text
\* that is no time, a missing cell.
DeliveryPool ==
  {StrC(<<"S", "a", "m", "e", " ", "D", "a", "y">>), StrC(<<"3", "-", "5", " ", "d", "a", "y", "s">>), StrC(<<"7", " ", "-", " ", "2">>), StrC(<<"4", "5", " ", "d", "a", "y", "s">>), StrC(<<"s", "o", "o", "n">>), Null}

\* Delivery parsing of x with and without clipping, the default maximum and
\* a maximum of 4 days.
DeliveryCfgs ==
  {[DefaultCfg EXCEPT !.delivery.column = "x", !.delivery.clip_max = clip,
                      !.delivery.max_days = mx] :
     clip \in BOOLEAN, mx \in {DefaultCfg.delivery.max_days, 4}}

InitDelivery ==
  /\ raw \in TextTables(DeliveryPool)
  /\ cfg \in DeliveryCfgs
  /\ df = raw
  /\ input = raw
  /\ alias = FALSE
  /\ report = <<>>
  /\ trace = <<>>
  /\ pc = "delivery"
  /\ pass = "first"
  /\ out1 = raw
  /\ rep1 = <<>>

SpecDelivery == InitDelivery /\ [][Delivery]_vars

\* standardize_delivery_pd has returned.
DeliveryDone == pc = After("delivery")

\* The cell of the delivery column x in input row i and in output row i.
DeliveryIn(i) == input.rows[i]["x"]
DeliveryOut(i) == df.rows[i]["x"]

\* The days each cell of the pool stands for, <<>> when it stands for none.
DaysValue(c) ==
  IF c = StrC(<<"S", "a", "m", "e", " ", "D", "a", "y">>) THEN <<0>>
  ELSE IF c = StrC(<<"3", "-", "5", " ", "d", "a", "y", "s">>) THEN <<5>>
  ELSE IF c = StrC(<<"7", " ", "-", " ", "2">>) THEN <<7>>
  ELSE IF c = StrC(<<"4", "5", " ", "d", "a", "y", "s">>) THEN <<45>>
  ELSE <<>>

\* The days of input row i are above the maximum and clipping is on.
Clipped(i) ==
  /\ cfg.delivery.clip_max
  /\ DaysValue(DeliveryIn(i)) # <<>> /\ DaysValue(DeliveryIn(i))[1] > cfg.delivery.max_days

C26_Range ==
  DeliveryDone =>
    \A i \in 1..NRows(input) :
      /\ \/ IsNull(DeliveryOut(i))
         \/ /\ IsNum(DeliveryOut(i))
            /\ NumVal(DeliveryOut(i))[2] = 1 /\ NumVal(DeliveryOut(i))[1] >= 0
            /\ cfg.delivery.clip_max => NumVal(DeliveryOut(i))[1] <= cfg.delivery.max_days
      /\ (DaysValue(DeliveryIn(i)) # <<>> /\ DaysValue(DeliveryIn(i))[1] > cfg.delivery.max_days)
           => /\ IsNum(DeliveryOut(i))
              /\ NumVal(DeliveryOut(i))
                   = RInt(IF cfg.delivery.clip_max THEN cfg.delivery.max_days
                          ELSE DaysValue(DeliveryIn(i))[1])

\* C26 witness: with clipping on, 45 days became the maximum of 30, and a
\* value under the maximum was kept.
C26_Witness ==
  /\ DeliveryDone /\ cfg.delivery.clip_max
  /\ cfg.delivery.max_days = DefaultCfg.delivery.max_days
  /\ \E i, j \in 1..NRows(input) :
       /\ DeliveryIn(i) = StrC(<<"4", "5", " ", "d", "a", "y", "s">>) /\ DeliveryOut(i) # Null
       /\ NumVal(DeliveryOut(i)) = RInt(cfg.delivery.max_days)
       /\ DeliveryIn(j) = StrC(<<"3", "-", "5", " ", "d", "a", "y", "s">>) /\ NumVal(DeliveryOut(j)) = RInt(5)

\* C26, clipping off: 45 days are kept although above the maximum.
C26_Unclipped ==
  /\ DeliveryDone /\ ~cfg.delivery.clip_max
  /\ \E i \in 1..NRows(input) :
       DeliveryIn(i) = StrC(<<"4", "5", " ", "d", "a", "y", "s">>) /\ NumVal(DeliveryOut(i)) = RInt(45)

\* C27: delivery_changed is the number of rows whose final value differs
\* from the raw input value, and delivery_nullified the number of rows whose
\* value was made null; a cell that was null already is counted in neither.
C27_Counts ==
  DeliveryDone =>
    /\ report["delivery"].delivery_changed
         = Cardinality({i \in 1..NRows(input) :
                          ~(IsNull(DeliveryIn(i)) /\ IsNull(DeliveryOut(i))) /\ DeliveryOut(i) # DeliveryIn(i)})
    /\ report["delivery"].delivery_nullified
         = Cardinality({i \in 1..NRows(input) : ~IsNull(DeliveryIn(i)) /\ IsNull(DeliveryOut(i))})

\* The same for the columns without a missing cell.
C27_CountsNoNull ==
  (\A i \in 1..NRows(input) : ~IsNull(DeliveryIn(i))) => C27_Counts

\* A missing cell, which stays missing, is counted as changed and as
\* nullified.
C27_NullCounted ==
  /\ DeliveryDone /\ NRows(input) = 2
  /\ DeliveryIn(1) = StrC(<<"3", "-", "5", " ", "d", "a", "y", "s">>) /\ IsNull(DeliveryIn(2)) /\ IsNull(DeliveryOut(2))
  /\ report["delivery"] = [delivery_changed |-> 2, delivery_nullified |-> 1]

\* ------------------------------------------- normalize_payment_pd by itself
\* The payment methods: a text with a UPI and a Wallet pattern, the
\* canonical label UPI itself, "COD" followed by a space, a text with an
\* underscore, a text no pattern occurs in, a key of the remap table, a
\* missing cell.
PaymentPool ==
  {StrC(<<"G", "P", "a", "y", " ", "W", "a", "l", "l", "e", "t">>), StrC(<<"U", "P", "I">>), StrC(<<"C", "O", "D", " ">>), StrC(<<"c", "r", "e", "d", "i", "t", "_", "c", "a", "r", "d">>),
   StrC(<<"c", "h", "e", "q", "u", "e">>), StrC(<<"g", "p", "a", "y">>), Null}

\* Payment canonicalization of x without a remap table and with one whose
\* key contains a UPI pattern.
PaymentCfgs ==
  {[DefaultCfg EXCEPT !.payment.column = "x", !.payment.extra_mappings = mp] :
     mp \in {<<>>, (<<"g", "p", "a", "y">> :> <<"G", "o", "o", "g", "l", "e", " ", "P", "a", "y">>)}}

InitPayment ==
  /\ raw \in TextTables(PaymentPool)
  /\ cfg \in PaymentCfgs
  /\ df = raw
  /\ input = raw
  /\ alias = FALSE
  /\ report = <<>>
  /\ trace = <<>>
  /\ pc = "payment"
  /\ pass = "first"
  /\ out1 = raw
  /\ rep1 = <<>>

SpecPayment == InitPayment /\ [][Payment]_vars

\* normalize_payment_pd has returned.
PaymentDone == pc = After("payment")

\* The cell of the payment column x in input row i and in output row i.
PaymentIn(i) == input.rows[i]["x"]
PaymentOut(i) == df.rows[i]["x"]

\* The first label, in the order UPI, Cash on Delivery, Debit Card, Credit
\* Card, Net Banking, Wallet, with a pattern in each text of the pool; the
\* text itself when there is none.
PaymentLabel(c) ==
  IF c \in {StrC(<<"G", "P", "a", "y", " ", "W", "a", "l", "l", "e", "t">>), StrC(<<"U", "P", "I">>), StrC(<<"g", "p", "a", "y">>)} THEN StrC(<<"U", "P", "I">>)
  ELSE IF c = StrC(<<"C", "O", "D", " ">>) THEN StrC(<<"C", "a", "s", "h", " ", "o", "n", " ", "D", "e", "l", "i", "v", "e", "r", "y">>)
  ELSE IF c = StrC(<<"c", "r", "e", "d", "i", "t", "_", "c", "a", "r", "d">>) THEN StrC(<<"C", "r", "e", "d", "i", "t", " ", "C", "a", "r", "d">>)
  ELSE c

\* The canonical form of a cell: the value of the remap table for a key of
\* it, the label otherwise, null for a null.
PaymentValue(c) ==
  IF IsNull(c) THEN c
  ELSE IF Val(c) \in DOMAIN cfg.payment.extra_mappings
       THEN StrC(cfg.payment.extra_mappings[Val(c)])
  ELSE PaymentLabel(c)

\* C28: a key of the remap table gets the table's value and no pattern is
\* applied; otherwise the first label, in the order UPI, Cash on Delivery,
\* Debit Card, Credit Card, Net Banking, Wallet, whose pattern occurs in the
\* lowercased, trimmed text with spaces for underscores wins; a value with
\* no pattern is returned as it is, null stays null, and payment_standardized
\* is the number of values whose result differs from the raw input.
C28_Canonical ==
  PaymentDone =>
    /\ \A i \in 1..NRows(input) : PaymentOut(i) = PaymentValue(PaymentIn(i))
    /\ report["payment"].payment_standardized
         = Cardinality({i \in 1..NRows(input) : PaymentOut(i) # PaymentIn(i)})

\* The same for the columns without a missing cell.
C28_CanonicalNoNull ==
  (\A i \in 1..NRows(input) : ~IsNull(PaymentIn(i))) => C28_Canonical

\* A missing cell, which stays missing, is counted as standardized.
C28_NullCounted ==
  /\ PaymentDone /\ NRows(input) = 2
  /\ PaymentIn(1) = StrC(<<"g", "p", "a", "y">>) /\ PaymentOut(1) = StrC(<<"U", "P", "I">>)
  /\ IsNull(PaymentIn(2)) /\ IsNull(PaymentOut(2))
  /\ report["payment"].payment_standardized = 2

\* The remap table wins over the UPI pattern in its key, and UPI wins over
\* Wallet in the same column.
C28_TableBeforePatterns ==
  /\ PaymentDone /\ NRows(input) = 2
  /\ PaymentIn(1) = StrC(<<"g", "p", "a", "y">>) /\ PaymentOut(1) = StrC(<<"G", "o", "o", "g", "l", "e", " ", "P", "a", "y">>)
  /\ PaymentIn(2) = StrC(<<"G", "P", "a", "y", " ", "W", "a", "l", "l", "e", "t">>) /\ PaymentOut(2) = StrC(<<"U", "P", "I">>)
  /\ report["payment"].payment_standardized = 2

\* --------------------------------------------- dq_report_df and its caller
\* The report made from the cleaned table alone.
DqReportOfAfter(before, after) ==
  LET missing_counts(t) ==
        IF NRows(t) = 0 \/ Cols(t) = {} THEN <<>>
        ELSE [c \in Cols(t) |-> NullCount(Col(t, c))]
  IN [rows_before |-> NRows(after), rows_after |-> NRows(after),
      missing_before |-> missing_counts(after),
      missing_after |-> missing_counts(after)]

\* dq_report_df: df.empty is true of a table without rows or without
\* columns.
DqReport(before, after) ==
  LET missing_counts(t) ==
        IF NRows(t) = 0 \/ Cols(t) = {} THEN <<>>
        ELSE [c \in Cols(t) |-> NullCount(Col(t, c))]
  IN [rows_before |-> NRows(before), rows_after |-> NRows(after),
      missing_before |-> missing_counts(before),
      missing_after |-> missing_counts(after)]

\* main after run_cleaning_df has returned: dq = dq_report_df(raw_df,
\* cleaned_df) and final_report = {"steps": step_report, "dq": dq}; report
\* holds final_report from here on.
FinalReport ==
  /\ pc = "done"
  /\ report' = [steps |-> report, dq |-> DqReport(raw, df)]
  /\ pc' = "reported"
  /\ UNCHANGED <<raw, cfg, df, alias, pass, input, trace, out1, rep1>>

\* A table of a file with a header line only, and a table without columns.
EmptyTables ==
  {[dt |-> [c \in {"k", "q", "x"} |-> "obj"], rows |-> <<>>],
   [dt |-> <<>>, rows |-> <<<<>>>>]}

\* main is run on the tables and configurations of Init, and on the empty
\* tables under the default configuration.
InitDq ==
  /\ \/ \E p \in Profiles :
          /\ cfg = ProfileCfg(p)
          /\ raw \in TablesOf(p[1])
     \/ /\ cfg = DefaultCfg
        /\ raw \in EmptyTables
  /\ df = raw
  /\ input = raw
  /\ alias = TRUE
  /\ report = <<>>
  /\ trace = <<>>
  /\ pc = "call"
  /\ pass = "first"
  /\ out1 = raw
  /\ rep1 = <<>>

NextDq ==
  \/ Call
  \/ Missing \/ Dates \/ Prices
  \/ Ratings \/ SkipRatings
  \/ Categories \/ Geo
  \/ Booleans \/ SkipBooleans
  \/ Delivery \/ SkipDelivery
  \/ Dedup \/ SkipDedup
  \/ Outliers \/ SkipOutliers
  \/ Payment \/ SkipPayment
  \/ FinalReport

SpecDq == InitDq /\ [][NextDq]_vars

\* main has built its final report.
DqDone == pc = "reported"

\* The number of null cells of each column of table t; no column at all for
\* a table without rows or without columns.
MissingOf(t, counts) ==
  IF t.rows = <<>> \/ DOMAIN t.dt = {} THEN counts = <<>>
  ELSE /\ DOMAIN counts = DOMAIN t.dt
       /\ \A c \in DOMAIN t.dt :
            counts[c] = Cardinality({i \in 1..Len(t.rows) : t.rows[i][c] = Null})

\* C29: rows_before and rows_after are the row counts of the original and
\* of the final table, missing_before and missing_after give for every
\* column of the respective table its number of null cells, each from its
\* own table; a table without rows or without columns has an empty map;
\* rows_after <= rows_before, with equality when dedup is not configured.
C29_DqReport ==
  DqDone =>
    /\ report.dq.rows_before = Len(input.rows)
    /\ report.dq.rows_after = Len(df.rows)
    /\ MissingOf(input, report.dq.missing_before)
    /\ MissingOf(df, report.dq.missing_after)
    /\ report.dq.rows_after <= report.dq.rows_before
    /\ cfg.dedup.key_fields = <<>> => report.dq.rows_after = report.dq.rows_before

\* Dedup has removed a row and a missing cell of the original table has
\* been filled: the two halves of the report differ.
C29_Witness ==
  /\ DqDone
  /\ report.dq.rows_after < report.dq.rows_before
  /\ \E c \in DOMAIN report.dq.missing_before :
       report.dq.missing_before[c] > 0 /\ report.dq.missing_after[c] = 0

\* A table without rows: both maps are empty though it has columns.
C29_NoRows ==
  /\ DqDone
  /\ input.rows = <<>> /\ DOMAIN input.dt # {}
  /\ report.dq.missing_before = <<>> /\ report.dq.missing_after = <<>>

\* A table without columns: both maps are empty though it has a row.
C29_NoColumns ==
  /\ DqDone
  /\ input.rows # <<>> /\ DOMAIN input.dt = {}
  /\ report.dq.rows_before = 1
  /\ report.dq.missing_before = <<>> /\ report.dq.missing_after = <<>>

====
